---- MODULE Spec2Model ----
(***************************************************************************)
(* Verification model of the aircher orchestration core:                   *)
(*   - ContextWindow (src/aircher/context/__init__.py): token-budgeted     *)
(*     working set with relevance-ordered pruning;                         *)
(*   - AircherAgent (src/aircher/agent/__init__.py): the per-turn stage    *)
(*     graph classify_intent .. update_memory;                             *)
(*   - DuckDBMemory / MemoryIntegration (src/aircher/memory): the tables   *)
(*     tool_executions, file_interactions and task_history, their          *)
(*     sequences, and find_co_edit_patterns;                               *)
(*   - the tool-tracking wrapper of MemoryIntegration called directly;     *)
(*   - ModelRouter and SessionCostTracker (src/aircher/models): fallback   *)
(*     chain, task routing and the usage ledger;                           *)
(*   - coroutines of several sessions calling the store and run() on one   *)
(*     event loop.                                                         *)
(* Relevance scores are kept as exact integers: the score of the code      *)
(* multiplied by ScoreScale, with item ages in whole hours.                *)
(***************************************************************************)
EXTENDS Integers, Sequences, FiniteSets, TLC

VARIABLES
    window,      \* the ContextWindow exercised directly: items, token_count, ...
    now,         \* wall clock (datetime.now()): hours for the window, seconds for the store
    next_id,     \* number of ContextItems created so far (ids are fresh)
    last_op,     \* the last ContextWindow call: its kind, the window before it, its return value
    llm,             \* AircherAgent.llm: "none" or "ok"
    memory_enabled,  \* AircherAgent.memory is not None
    mem_session,     \* MemoryIntegration._session_id
    episodes,        \* rows of the tool_executions table
    snapshots,       \* rows of the context_snapshots table
    file_interactions,  \* rows of the file_interactions table
    task_history,    \* rows of the task_history table
    seqs,            \* current values of the database sequences, one per table
    store_call,      \* the last call of the store made directly: its name, its
                     \* arguments, the tables before it and what it returned
    callers,         \* the record_* calls in flight, one per coroutine calling the store
    coroutines,      \* concurrent run() calls on one agent: session, position, items added
    log,             \* the steps the concurrent run() calls have taken, in order
    patterns,        \* the arguments and rows of a find_co_edit_patterns call, kept until
                     \* the table or the clock moves on
    turn_start,      \* the store as the turn in progress finds it: its row counts at
                     \* the start of the turn, and whether the database answers
    model_router,    \* AircherAgent.model_router (session_id None: not created yet)
    router_call,     \* the last call of the ModelRouter made directly: what it tried and
                     \* returned; the models that construct; the records track_usage returned
    context_window,  \* AircherAgent.context_window (session_id None: not created yet)
    state,           \* the AgentState of the turn in progress
    pc,              \* "idle", the stage the turn is at, or "END"
    call_idx,        \* _execute_task: index of the planned call the loop is at
    results,         \* _execute_task: the local list of results
    route,           \* the label returned by the last conditional edge
    trace,           \* stages entered in this turn, in order
    executed,        \* tools whose execute() body ran in this turn, in order
    ret,             \* how the last run() call ended
    turns            \* number of run() calls so far

ctx_vars == <<window, now, next_id, last_op>>
agent_vars == <<llm, memory_enabled, mem_session, episodes, snapshots, file_interactions,
                task_history, seqs, store_call, callers, coroutines, log, router_call,
                patterns, turn_start, model_router, context_window, state, pc, call_idx,
                results, route, trace, executed, ret, turns>>
vars == <<window, now, next_id, last_op, llm, memory_enabled, mem_session, episodes,
          snapshots, file_interactions, task_history, seqs, store_call, callers, coroutines,
          log, router_call, patterns, turn_start, model_router, context_window,
          state, pc, call_idx, results, route, trace, executed, ret, turns>>

None == "None"

----------------------------------------------------------------------------
(* Bounds of the model *)

TokenLimit == 10
MaxAdds == 2
MaxPrunes == 2
MaxClock == 1
MaxTurns == 1
MaxPlan == 2
MaxRows == 3
MaxSeconds == 1
MaxInserts == 3
MaxUsage == 2

(* Program constants *)

PruneThresholdNum == 8
PruneThresholdDen == 10
PruneFractionNum == 3
PruneFractionDen == 10
TaskBoost == 2
ClampMax == 100
DefaultTokenLimit == 120000
CharsPerToken == 4
SystemPromptLen == 74
DefaultWithinSeconds == 300
SuggestMinCount == 2
DefaultModel == "gpt-4o-mini"

----------------------------------------------------------------------------
(* ContextItem / ContextWindow *)

ContextItemType ==
    {"system_prompt", "task_state", "user_message", "assistant_response",
     "tool_result", "code_snippet", "knowledge_graph_query"}

\* a ContextItem as add_item constructs it
ContextItem(id, ts, item_type, token_cost, sticky, task_id, dependencies, relevance10) ==
    [id |-> id, timestamp |-> ts, item_type |-> item_type, token_cost |-> token_cost,
     sticky |-> sticky, task_id |-> task_id, dependencies |-> dependencies,
     relevance10 |-> relevance10]

NoItem == ContextItem(0, 0, None, 0, FALSE, None, {}, 0)

\* a ContextWindow right after construction
NewContextWindow(session_id, token_limit) ==
    [session_id |-> session_id, current_task_id |-> None, items |-> <<>>,
     token_count |-> 0, token_limit |-> token_limit, pruning_count |-> 0]

\* _estimate_tokens: len(text) // 4
estimate_tokens(text_len) == text_len \div CharsPerToken

RECURSIVE SumCost(_)
SumCost(items) ==
    IF items = <<>> THEN 0 ELSE Head(items).token_cost + SumCost(Tail(items))

RECURSIVE Pow2(_)
Pow2(n) == IF n = 0 THEN 1 ELSE 2 * Pow2(n - 1)

\* the oldest age (hours) an item can have in the model
MaxAge == MaxClock + 1

\* scores are the code's floats times ScoreScale:
\* 2^MaxAge (time decay) * 5 (dependency boost) * 10 (type weight) * 10 (relevance)
ScoreScale == Pow2(MaxAge) * 5 * 10 * 10

\* type_multiplier, times 10
TypeWeight10(item_type) ==
    CASE item_type = "system_prompt" -> 1000
      [] item_type = "task_state" -> 20
      [] item_type = "user_message" -> 15
      [] item_type = "assistant_response" -> 12
      [] item_type = "tool_result" -> 8
      [] item_type = "code_snippet" -> 7
      [] item_type = "knowledge_graph_query" -> 6
      [] OTHER -> 10

count_dependents(w, item_id) ==
    Cardinality({i \in 1..Len(w.items) : item_id \in w.items[i].dependencies})

Min(a, b) == IF a < b THEN a ELSE b
Max(a, b) == IF a > b THEN a ELSE b

\* _calculate_relevance, times ScoreScale
calculate_relevance(w, item, clock) ==
    LET age == clock - item.timestamp
        time_score == Pow2(MaxAge - age)                    \* 2^(-age/60min) * 2^MaxAge
        task_boost == IF w.current_task_id # None /\ item.task_id = w.current_task_id
                      THEN TaskBoost ELSE 1
        dependency_boost5 == 5 + count_dependents(w, item.id)  \* (1 + 0.2 n) * 5
        score == time_score * task_boost * dependency_boost5
                 * TypeWeight10(item.item_type) * item.relevance10
    IN  Max(0, Min(ClampMax * ScoreScale, score))

\* a test that waits until the total is over the threshold
should_prune_above(w) ==
    w.token_count * PruneThresholdDen > w.token_limit * PruneThresholdNum
\* should_prune: token_count >= token_limit * pruning_threshold
should_prune(w) ==
    w.token_count * PruneThresholdDen >= w.token_limit * PruneThresholdNum

\* indices of the non-sticky items (step 1 of prune_context)
NonStickyIdxBroken(w) == 1..Len(w.items)
NonStickyIdx(w) == {i \in 1..Len(w.items) : ~w.items[i].sticky}

\* scored_items left in insertion order
ScoredItemsUnsorted(w, clock) ==
    LET S == NonStickyIdx(w)
        Rank(i) == 1 + Cardinality({j \in S : j < i})
    IN  [k \in 1..Cardinality(S) |-> CHOOSE i \in S : Rank(i) = k]
\* scored_items after the stable sort by score, lowest first (step 2)
ScoredItems(w, clock) ==
    LET S == NonStickyIdx(w)
        sc(i) == calculate_relevance(w, w.items[i], clock)
        Before(j, i) == sc(j) < sc(i) \/ (sc(j) = sc(i) /\ j < i)
        Rank(i) == 1 + Cardinality({j \in S : Before(j, i)})
    IN  [k \in 1..Cardinality(S) |-> CHOOSE i \in S : Rank(i) = k]

\* int(self.token_count * 0.3)
TargetRemovalLow(w) == (w.token_count * (PruneFractionNum - 1)) \div PruneFractionDen
TargetRemoval(w) == (w.token_count * PruneFractionNum) \div PruneFractionDen

\* the marking loop (step 3): indices marked for removal, in score order
RECURSIVE MarkForRemoval(_, _, _, _, _)
MarkForRemoval(items, scored, k, target, removed_tokens) ==
    IF k > Len(scored) \/ removed_tokens >= target
    THEN <<>>
    ELSE <<scored[k]>> \o
         MarkForRemoval(items, scored, k + 1, target,
                        removed_tokens + items[scored[k]].token_cost)

RemovedIdx(w, clock) ==
    LET marked == MarkForRemoval(w.items, ScoredItems(w, clock), 1, TargetRemoval(w), 0)
    IN  {marked[k] : k \in 1..Len(marked)}

RECURSIVE CostOfIdx(_, _)
CostOfIdx(items, S) ==
    IF S = {} THEN 0
    ELSE LET i == CHOOSE x \in S : TRUE
         IN  items[i].token_cost + CostOfIdx(items, S \ {i})

RECURSIVE DropIdx(_, _, _)
DropIdx(items, S, i) ==
    IF i > Len(items) THEN <<>>
    ELSE (IF i \in S THEN <<>> ELSE <<items[i]>>) \o DropIdx(items, S, i + 1)

prune_context_stale(w, clock) ==
    IF w.items = <<>> \/ NonStickyIdx(w) = {}
    THEN [w |-> w, ret |-> 0]
    ELSE LET removed == RemovedIdx(w, clock)
             removed_tokens == CostOfIdx(w.items, removed)
         IN  [w |-> [w EXCEPT !.items = DropIdx(w.items, removed, 1),
                              !.token_count = w.token_count - TargetRemoval(w),
                              !.pruning_count = w.pruning_count + 1],
              ret |-> removed_tokens]

\* prune_context: the window afterwards and the value returned
prune_context(w, clock) ==
    IF w.items = <<>> \/ NonStickyIdx(w) = {}
    THEN [w |-> w, ret |-> 0]
    ELSE LET removed == RemovedIdx(w, clock)
             removed_tokens == CostOfIdx(w.items, removed)
         IN  [w |-> [w EXCEPT !.items = DropIdx(w.items, removed, 1),
                              !.token_count = w.token_count - removed_tokens,
                              !.pruning_count = w.pruning_count + 1],
              ret |-> removed_tokens]

\* add_item: append, count, prune when at the threshold
add_item(w, item) ==
    LET appended == [w EXCEPT !.items = Append(w.items, item),
                              !.token_count = w.token_count + item.token_cost]
    IN  IF should_prune(appended) THEN prune_context(appended, item.timestamp).w
        ELSE appended

clear(w) == [w EXCEPT !.items = <<>>, !.token_count = 0]

----------------------------------------------------------------------------
(* Episodic store (src/aircher/memory/duckdb_memory.py) and the tracking   *)
(* layer over it (src/aircher/memory/integration.py)                        *)

\* VARCHAR comparison of the paths the model uses: their lexicographic order
PathOrder == <<".", "/main.py", "a.py", "b.py", "c.py", "py", "src/main.py">>
PathRank(p) == CHOOSE i \in 1..Len(PathOrder) : PathOrder[i] = p
PathLess(p, q) == PathRank(p) < PathRank(q)

\* what json.dumps accepts among the values the agent hands to the store:
\* None and plain data, not a coroutine object nor a pydantic ToolOutput
JsonSerializable(value_kind) == value_kind \in {"none", "data"}

\* CREATE SEQUENCE ... START 1, before its first nextval
NewSequences == [tool_executions |-> 0, file_interactions |-> 0, task_history |-> 0]

\* nextval: the sequence moves on and gives its new value
nextval(seq) == seq + 1
\* SELECT currval(...): the value the last nextval of anyone gave
currval(seq) == seq

\* an INSERT that leaves out a row whose columns are already in the table
InsertRowOnce(rows, seq, row) ==
    IF \E i \in 1..Len(rows) : [f \in (DOMAIN rows[i]) \ {"id"} |-> rows[i][f]] = row
    THEN [rows |-> rows, seq |-> seq]
    ELSE [rows |-> Append(rows, [id |-> nextval(seq)] @@ row), seq |-> nextval(seq)]

\* INSERT of the columns of row, the id column taking DEFAULT nextval(seq)
InsertRow(rows, seq, row) ==
    [rows |-> Append(rows, [id |-> nextval(seq)] @@ row), seq |-> nextval(seq)]

\* the columns of a stored row other than its id
Columns(row) == [f \in (DOMAIN row) \ {"id"} |-> row[f]]

EpisodeRow(session_id, tool_name, success) ==
    [session_id |-> session_id, tool_name |-> tool_name, success |-> success]

\* record_tool_execution: the INSERT happens only if both json.dumps calls succeed;
\* the id returned is read from the sequence by a second statement
record_tool_execution(rows, seq, session_id, tool_name, result_kind, success) ==
    IF JsonSerializable(result_kind)
    THEN LET ins == InsertRow(rows, seq, EpisodeRow(session_id, tool_name, success))
         IN  [raised |-> FALSE, rows |-> ins.rows, seq |-> ins.seq, id |-> currval(ins.seq)]
    ELSE [raised |-> TRUE, rows |-> rows, seq |-> seq, id |-> 0]

FileInteractionRow(session_id, file_path, operation, success, timestamp) ==
    [session_id |-> session_id, file_path |-> file_path, operation |-> operation,
     success |-> success, timestamp |-> timestamp]

\* record_file_interaction
record_file_interaction(rows, seq, session_id, file_path, operation, success, timestamp) ==
    LET ins == InsertRow(rows, seq, FileInteractionRow(session_id, file_path, operation,
                                                       success, timestamp))
    IN  [rows |-> ins.rows, seq |-> ins.seq, id |-> currval(ins.seq)]

\* the words _track_file_operation and the wrapper look for, per function name
NameWords(tool_name) ==
    CASE tool_name = "read_file" -> {"file"}
      [] tool_name = "write_file" -> {"file", "write"}
      [] tool_name = "edit_file" -> {"file", "edit"}
      [] tool_name = "search_files" -> {"file", "search"}
      [] OTHER -> {}

\* _track_file_operation: the operation derived from the function name
file_operation(tool_name) ==
    IF "write" \in NameWords(tool_name) \/ "create" \in NameWords(tool_name) THEN "write"
    ELSE IF "edit" \in NameWords(tool_name) \/ "modify" \in NameWords(tool_name) THEN "edit"
    ELSE IF "search" \in NameWords(tool_name) THEN "search"
    ELSE IF "analyze" \in NameWords(tool_name) THEN "analyze"
    ELSE "read"

\* the wrapper of track_tool_execution around a function named tool_name that
\* returned a value of kind result_kind (success) or raised (result None, not
\* success): what its finally block records, and whether recording raised.
\* the wrapper as it would be if every result could be stored
track_tool_execution_storing(eps, fis, sq, session_id, tool_name, result_kind, success, path, timestamp) ==
    LET rec == record_tool_execution(eps, sq.tool_executions, session_id, tool_name,
                                     "data", success)
        fi == record_file_interaction(fis, sq.file_interactions, session_id, path,
                                      file_operation(tool_name), success, timestamp)
    IN  IF session_id = None
        THEN [raised |-> FALSE, episodes |-> eps, file_interactions |-> fis, seqs |-> sq]
        ELSE IF "file" \in NameWords(tool_name)
        THEN [raised |-> FALSE, episodes |-> rec.rows, file_interactions |-> fi.rows,
              seqs |-> [sq EXCEPT !.tool_executions = rec.seq, !.file_interactions = fi.seq]]
        ELSE [raised |-> FALSE, episodes |-> rec.rows, file_interactions |-> fis,
              seqs |-> [sq EXCEPT !.tool_executions = rec.seq]]
\* Around a tool's async execute, tool_func.__name__ is "execute" and calling it
\* only creates a coroutine object: no exception, so success is True, and the
\* finally block records that object.
track_tool_execution(eps, fis, sq, session_id, tool_name, result_kind, success, path, timestamp) ==
    LET rec == record_tool_execution(eps, sq.tool_executions, session_id, tool_name,
                                     result_kind, success)
        fi == record_file_interaction(fis, sq.file_interactions, session_id, path,
                                      file_operation(tool_name), success, timestamp)
    IN  IF session_id = None
        THEN [raised |-> FALSE, episodes |-> eps, file_interactions |-> fis, seqs |-> sq]
        ELSE IF rec.raised
        THEN [raised |-> TRUE, episodes |-> eps, file_interactions |-> fis, seqs |-> sq]
        ELSE IF "file" \in NameWords(tool_name)
        THEN [raised |-> FALSE, episodes |-> rec.rows, file_interactions |-> fi.rows,
              seqs |-> [sq EXCEPT !.tool_executions = rec.seq, !.file_interactions = fi.seq]]
        ELSE [raised |-> FALSE, episodes |-> rec.rows, file_interactions |-> fis,
              seqs |-> [sq EXCEPT !.tool_executions = rec.seq]]

CoEditOps == {"edit", "write"}

\* the join condition of find_co_edit_patterns on rows i (f1) and j (f2)
CoEditJoinedAnyOrder(rows, within_seconds, i, j) ==
    /\ rows[i].session_id = rows[j].session_id
    /\ rows[i].operation \in CoEditOps
    /\ rows[j].operation \in CoEditOps
    /\ rows[j].timestamp - rows[i].timestamp >= 0
    /\ rows[j].timestamp - rows[i].timestamp <= within_seconds

CoEditJoined(rows, within_seconds, i, j) ==
    /\ rows[i].session_id = rows[j].session_id
    /\ PathLess(rows[i].file_path, rows[j].file_path)
    /\ rows[i].operation \in CoEditOps
    /\ rows[j].operation \in CoEditOps
    /\ rows[j].timestamp - rows[i].timestamp >= 0
    /\ rows[j].timestamp - rows[i].timestamp <= within_seconds

\* the rows of the join: pairs of row numbers of file_interactions
CoEditJoin(rows, within_seconds) ==
    {ij \in (1..Len(rows)) \X (1..Len(rows)) :
        CoEditJoined(rows, within_seconds, ij[1], ij[2])}

\* COUNT(*) of the group (file1, file2)
CoEditCount(rows, within_seconds, file1, file2) ==
    Cardinality({ij \in CoEditJoin(rows, within_seconds) :
                    /\ rows[ij[1]].file_path = file1
                    /\ rows[ij[2]].file_path = file2})

\* GROUP BY f1.file_path, f2.file_path HAVING COUNT(*) > min_count
CoEditGroupsStrict(rows, min_count, within_seconds) ==
    LET join == CoEditJoin(rows, within_seconds)
        keys == {<<rows[ij[1]].file_path, rows[ij[2]].file_path>> : ij \in join}
        count(k) == Cardinality({ij \in join : /\ rows[ij[1]].file_path = k[1]
                                                /\ rows[ij[2]].file_path = k[2]})
    IN  {[file1 |-> k[1], file2 |-> k[2], count |-> count(k)] :
            k \in {g \in keys : count(g) > min_count}}

\* GROUP BY f1.file_path, f2.file_path HAVING COUNT(*) >= min_count
CoEditGroups(rows, min_count, within_seconds) ==
    LET join == CoEditJoin(rows, within_seconds)
        keys == {<<rows[ij[1]].file_path, rows[ij[2]].file_path>> : ij \in join}
        count(k) == Cardinality({ij \in join : /\ rows[ij[1]].file_path = k[1]
                                                /\ rows[ij[2]].file_path = k[2]})
    IN  {[file1 |-> k[1], file2 |-> k[2], count |-> count(k)] :
            k \in {g \in keys : count(g) >= min_count}}

\* ORDER BY co_edit_count DESC: every listing of the groups by non-increasing count
\* (the order among equal counts is the database's choice)
find_co_edit_patterns(rows, min_count, within_seconds) ==
    LET groups == CoEditGroups(rows, min_count, within_seconds)
        n == Cardinality(groups)
    IN  {out \in [1..n -> groups] :
            /\ \A i, j \in 1..n : i # j => out[i] # out[j]
            /\ \A i \in 1..(n - 1) : out[i].count >= out[i + 1].count}

\* the files _select_tools suggests from the co-edit patterns
suggested_files(co_edit_patterns, files_mentioned) ==
    {p.file2 : p \in {g \in co_edit_patterns : g.file1 \in files_mentioned}}
        \cup {p.file1 : p \in {g \in co_edit_patterns :
                                  g.file1 \notin files_mentioned /\ g.file2 \in files_mentioned}}

\* _update_memory's loop over the turn's results: a successful entry carries the tool's
\* ToolOutput object as its result, a failed one carries no result
RECURSIVE record_results(_, _, _, _)
record_results(rows, seq, session_id, tool_results) ==
    IF tool_results = <<>> THEN [raised |-> FALSE, rows |-> rows, seq |-> seq]
    ELSE LET r == Head(tool_results)
             rec == record_tool_execution(rows, seq, session_id, r.tool,
                        IF r.kind = "result" THEN "tool_output" ELSE "none",
                        r.kind # "error")
         IN  IF rec.raised THEN [raised |-> TRUE, rows |-> rec.rows, seq |-> rec.seq]
             ELSE record_results(rec.rows, rec.seq, session_id, Tail(tool_results))

NoQuery == [asked |-> FALSE, min_count |-> 0, within_seconds |-> 0, rows |-> <<>>]

\* NULL in a TIMESTAMP column and in a JSON column
NullTime == 0 - 1
NullJson == {None}

\* a task_history row as create_task inserts it
TaskRow(task_id, session_id, started_at) ==
    [task_id |-> task_id, session_id |-> session_id, status |-> "active",
     started_at |-> started_at, completed_at |-> NullTime, outcome |-> None,
     files_touched |-> NullJson, tools_used |-> NullJson]

TaskExists(rows, task_id) == \E i \in 1..Len(rows) : rows[i].task_id = task_id

\* create_task: task_id is UNIQUE, so the INSERT of an id already in the table is
\* refused with a constraint error; consumed tells whether the refused INSERT had
\* already drawn its id from the sequence
create_task(rows, seq, task_id, session_id, timestamp, consumed) ==
    IF TaskExists(rows, task_id)
    THEN [raised |-> TRUE, rows |-> rows,
          seq |-> IF consumed THEN nextval(seq) ELSE seq, id |-> 0]
    ELSE LET ins == InsertRow(rows, seq, TaskRow(task_id, session_id, timestamp))
         IN  [raised |-> FALSE, rows |-> ins.rows, seq |-> ins.seq, id |-> currval(ins.seq)]

\* json.dumps(x) if x else None
JsonOrNull(x) == IF x = {} THEN NullJson ELSE x

\* a complete_task that creates the record of a task it does not find
complete_task_upsert(rows, task_id, outcome, files_touched, tools_used, timestamp) ==
    [found |-> TRUE,
     rows |-> IF TaskExists(rows, task_id)
              THEN [i \in 1..Len(rows) |->
                      IF rows[i].task_id = task_id
                      THEN [rows[i] EXCEPT !.status = "completed", !.outcome = outcome]
                      ELSE rows[i]]
              ELSE Append(rows, [id |-> 0] @@
                                [TaskRow(task_id, None, timestamp) EXCEPT
                                    !.status = "completed", !.outcome = outcome])]

\* complete_task: SELECT COUNT(*), then the UPDATE if the task is there
complete_task(rows, task_id, outcome, files_touched, tools_used, timestamp) ==
    LET task_exists == TaskExists(rows, task_id)
    IN  [found |-> task_exists,
         rows |-> IF task_exists
                  THEN [i \in 1..Len(rows) |->
                          IF rows[i].task_id = task_id
                          THEN [rows[i] EXCEPT !.status = "completed",
                                               !.completed_at = timestamp,
                                               !.outcome = outcome,
                                               !.files_touched = JsonOrNull(files_touched),
                                               !.tools_used = JsonOrNull(tools_used)]
                          ELSE rows[i]]
                  ELSE rows]

\* the tables a direct call of the store can write
Tables(eps, fis, tasks) ==
    [tool_executions |-> eps, file_interactions |-> fis, task_history |-> tasks]

\* no direct call of the store made yet
NoCall == [op |-> "none", task_id |-> None, args |-> <<>>, raised |-> FALSE, id |-> 0,
           found |-> FALSE, pre |-> Tables(<<>>, <<>>, <<>>)]

----------------------------------------------------------------------------
(* Model routing and cost tracking (src/aircher/models/__init__.py).         *)
(* Prices are integers: cost_per_1k in units of 1e-5 USD, so that the cost   *)
(* of a call in units of 1e-8 USD is tokens * cost_per_1k.                   *)

ModelConfig(name, provider, tier, cost_per_1k_input, cost_per_1k_output) ==
    [name |-> name, provider |-> provider, tier |-> tier,
     cost_per_1k_input |-> cost_per_1k_input, cost_per_1k_output |-> cost_per_1k_output]

\* the catalog, in the order the dict is written
SUPPORTED_MODELS ==
    << ModelConfig("gpt-4o", "openai", "medium", 250, 1000),
       ModelConfig("gpt-4o-mini", "openai", "small", 15, 60),
       ModelConfig("gpt-4", "openai", "large", 3000, 6000),
       ModelConfig("claude-opus-4-20250514", "anthropic", "large", 1500, 7500),
       ModelConfig("claude-sonnet-4-20250514", "anthropic", "medium", 300, 1500),
       ModelConfig("claude-haiku-4-20250514", "anthropic", "small", 80, 400),
       ModelConfig("ollama/llama3.2", "ollama", "local", 0, 0),
       ModelConfig("vllm/qwen2.5-32b", "vllm", "medium", 0, 0),
       ModelConfig("vllm/llama-3.3-70b", "vllm", "large", 0, 0),
       ModelConfig("vllm/deepseek-coder-33b", "vllm", "medium", 0, 0),
       ModelConfig("anthropic/claude-sonnet-4.5", "openrouter", "medium", 300, 1500),
       ModelConfig("anthropic/claude-opus-4", "openrouter", "large", 1500, 7500),
       ModelConfig("openai/gpt-4o", "openrouter", "medium", 250, 1000) >>

ModelNames == {SUPPORTED_MODELS[i].name : i \in 1..Len(SUPPORTED_MODELS)}
ConfigOf(model_name) ==
    SUPPORTED_MODELS[CHOOSE i \in 1..Len(SUPPORTED_MODELS) :
                         SUPPORTED_MODELS[i].name = model_name]

\* [name for name, config in SUPPORTED_MODELS.items() if config.tier == tier]
RECURSIVE NamesOfTier(_, _)
NamesOfTier(models, tier) ==
    IF models = <<>> THEN <<>>
    ELSE (IF Head(models).tier = tier THEN <<Head(models).name>> ELSE <<>>)
         \o NamesOfTier(Tail(models), tier)

\* _build_fallback_chain
build_fallback_chain ==
    NamesOfTier(SUPPORTED_MODELS, "large") \o NamesOfTier(SUPPORTED_MODELS, "medium")
    \o NamesOfTier(SUPPORTED_MODELS, "small") \o NamesOfTier(SUPPORTED_MODELS, "local")

\* the loop of _try_fallback over remaining_models; up: the models whose client constructs
RECURSIVE FirstConstructed(_, _, _)
FirstConstructed(remaining, up, tried) ==
    IF remaining = <<>> THEN [ret |-> None, raised |-> TRUE, tried |-> tried]
    ELSE IF Head(remaining) \in up
         THEN [ret |-> Head(remaining), raised |-> FALSE, tried |-> Append(tried, Head(remaining))]
         ELSE FirstConstructed(Tail(remaining), up, Append(tried, Head(remaining)))

\* a walk that starts over from the head of the chain
try_fallback_from_head(failed_model, up, tried) ==
    FirstConstructed(build_fallback_chain, up, tried)
\* _try_fallback
try_fallback(failed_model, up, tried) ==
    LET chain == build_fallback_chain
        found == \E i \in 1..Len(chain) : chain[i] = failed_model
        failed_idx == CHOOSE i \in 1..Len(chain) : chain[i] = failed_model
    IN  FirstConstructed(IF found THEN SubSeq(chain, failed_idx + 1, Len(chain)) ELSE chain,
                         up, tried)

\* get_model: the model whose client is returned, or raised, and the models tried in order
get_model(model_name, default_model, enable_fallback, up) ==
    LET wanted == IF model_name = None THEN default_model ELSE model_name
        name == IF wanted \notin ModelNames THEN default_model ELSE wanted
    IN  IF name \in up THEN [ret |-> name, raised |-> FALSE, tried |-> <<name>>]
        ELSE IF enable_fallback THEN try_fallback(name, up, <<name>>)
        ELSE [ret |-> None, raised |-> TRUE, tried |-> <<name>>]

TaskTypes == {"main_agent", "sub_agent", "simple_query", "complex_reasoning",
              "code_generation", "code_review"}

\* the first catalog entry of a tier
RECURSIVE FirstOfTier(_, _, _)
FirstOfTier(models, tier, default_model) ==
    IF models = <<>> THEN default_model
    ELSE IF Head(models).tier = tier THEN Head(models).name
    ELSE FirstOfTier(Tail(models), tier, default_model)

\* a routing that gives every task type the medium tier
select_model_for_task_medium(task_type, default_model) ==
    FirstOfTier(SUPPORTED_MODELS, "medium", default_model)
\* select_model_for_task
select_model_for_task(task_type, default_model) ==
    LET desired_tier ==
            CASE task_type = "main_agent" -> "medium"
              [] task_type = "sub_agent" -> "small"
              [] task_type = "simple_query" -> "small"
              [] task_type = "complex_reasoning" -> "large"
              [] task_type = "code_generation" -> "medium"
              [] task_type = "code_review" -> "small"
              [] OTHER -> "medium"
    IN  FirstOfTier(SUPPORTED_MODELS, desired_tier, default_model)

UsageStats(model_name, input_tokens, output_tokens, estimated_cost) ==
    [model_name |-> model_name, input_tokens |-> input_tokens,
     output_tokens |-> output_tokens, total_tokens |-> input_tokens + output_tokens,
     estimated_cost |-> estimated_cost]

\* ModelRouter(session_id=...) with its SessionCostTracker; usage: the usage
\* records of usage_by_model, in the order they were appended
NewRouter(session_id) == [session_id |-> session_id, usage |-> <<>>, total_cost |-> 0]

\* track_usage -> SessionCostTracker.add_usage: the router afterwards and the record returned
add_usage(router, model_name, input_tokens, output_tokens) ==
    IF model_name \notin ModelNames
    THEN [router |-> router,
          ret |-> UsageStats(model_name, input_tokens, output_tokens, 0)]
    ELSE LET total_cost == input_tokens * ConfigOf(model_name).cost_per_1k_input
                           + output_tokens * ConfigOf(model_name).cost_per_1k_output
             usage == UsageStats(model_name, input_tokens, output_tokens, total_cost)
         IN  [router |-> [router EXCEPT !.usage = Append(@, usage),
                                        !.total_cost = @ + total_cost],
              ret |-> usage]

RECURSIVE SumField(_, _)
SumField(usages, field) ==
    IF usages = <<>> THEN 0 ELSE Head(usages)[field] + SumField(Tail(usages), field)

\* get_cost_summary -> SessionCostTracker.get_summary
get_summary(router) ==
    [session_id |-> router.session_id,
     total_cost |-> router.total_cost,
     total_input_tokens |-> SumField(router.usage, "input_tokens"),
     total_output_tokens |-> SumField(router.usage, "output_tokens"),
     total_tokens |-> SumField(router.usage, "input_tokens")
                      + SumField(router.usage, "output_tokens"),
     models_used |-> {router.usage[i].model_name : i \in 1..Len(router.usage)},
     call_count |-> Len(router.usage)]

NoUsage == UsageStats(None, 0, 0, 0)
\* no direct call of the router made yet
NoRouterCall == [op |-> "none", arg |-> None, enable_fallback |-> TRUE, up |-> {},
                 tried |-> <<>>, ret |-> None, raised |-> FALSE, usage |-> NoUsage,
                 tracked |-> <<>>]

----------------------------------------------------------------------------
(* Agent modes (src/aircher/modes/__init__.py) *)

AgentMode == {"read", "edit", "turbo"}

MODE_CAPABILITIES ==
    [mode \in AgentMode |->
        CASE mode = "read" ->
                [can_read_files |-> TRUE, can_write_files |-> FALSE,
                 can_execute_commands |-> FALSE, can_spawn_subagents |-> TRUE,
                 requires_confirmation |-> FALSE]
          [] mode = "edit" ->
                [can_read_files |-> TRUE, can_write_files |-> TRUE,
                 can_execute_commands |-> FALSE, can_spawn_subagents |-> FALSE,
                 requires_confirmation |-> TRUE]
          [] mode = "turbo" ->
                [can_read_files |-> TRUE, can_write_files |-> TRUE,
                 can_execute_commands |-> TRUE, can_spawn_subagents |-> TRUE,
                 requires_confirmation |-> FALSE]]

get_mode_capabilities(mode) == MODE_CAPABILITIES[mode]

----------------------------------------------------------------------------
(* AircherAgent (src/aircher/agent/__init__.py) *)

\* A request text is kept as the keyword groups it contains and the file it mentions.
IntentKeywords == {"read", "write", "search", "delete", "execute"}

classify_intent_simple_write_first(request) ==
    IF "write" \in request.kw THEN "write"
    ELSE IF "read" \in request.kw THEN "read"
    ELSE IF "search" \in request.kw THEN "search"
    ELSE IF "delete" \in request.kw THEN "delete"
    ELSE IF "execute" \in request.kw THEN "execute"
    ELSE "general"

\* _classify_intent_simple: the keyword groups are tried in a fixed order
classify_intent_simple(request) ==
    IF "read" \in request.kw THEN "read"
    ELSE IF "write" \in request.kw THEN "write"
    ELSE IF "search" \in request.kw THEN "search"
    ELSE IF "delete" \in request.kw THEN "delete"
    ELSE IF "execute" \in request.kw THEN "execute"
    ELSE "general"

get_required_capability_lax(intent) ==
    IF intent \in {"read", "search", "general"} THEN "can_read_files"
    ELSE "can_write_files"

get_required_capability(intent) ==
    IF intent \in {"read", "search", "general"} THEN "can_read_files"
    ELSE IF intent \in {"write", "execute"} THEN "can_write_files"
    ELSE IF intent \in {"delete"} THEN "can_execute_commands"
    ELSE "can_read_files"

has_capability(capabilities, required_capability) ==
    IF required_capability \in DOMAIN capabilities
    THEN capabilities[required_capability] ELSE FALSE

\* _extract_file_paths: re.findall over the three patterns, collected in a set.
\* The first pattern has a capture group, so findall yields the extension only.
extract_file_paths(request) ==
    CASE request.file = "src/main.py" -> {"py", "/main.py", "src/main.py"}
      [] request.file = "test.py" -> {"py"}
      [] OTHER -> {}

\* names of the tools in self.tools (tool_map in _execute_task)
ToolNames == {"bash", "read_file", "write_file", "list_directory", "search_files"}

PlannedCall(tool, path) == [tool |-> tool, path |-> path, wellformed |-> TRUE]
\* a planned call without a "tool" or "parameters" entry
MalformedCall == [tool |-> None, path |-> None, wellformed |-> FALSE]

\* _generate_tool_plan_fallback; first_path is file_paths[0] of list(set(...))
generate_tool_plan_fallback(intent, file_paths, first_path, capabilities) ==
    IF intent = "read" /\ capabilities.can_read_files
    THEN (IF file_paths = {} THEN <<>> ELSE <<PlannedCall("read_file", first_path)>>)
    ELSE IF intent = "write" /\ capabilities.can_write_files
    THEN (IF file_paths = {} THEN <<>> ELSE <<PlannedCall("write_file", first_path)>>)
    ELSE IF intent = "search" /\ capabilities.can_read_files
    THEN <<PlannedCall("search_files", ".")>>
    ELSE <<>>

\* _get_available_tools_for_capabilities
get_available_tools_for_capabilities(capabilities) ==
    {t \in ToolNames :
        \/ t \in {"read_file", "list_directory", "search_files"} /\ capabilities.can_read_files
        \/ t \in {"write_file"} /\ capabilities.can_write_files
        \/ t \in {"bash"} /\ capabilities.can_execute_commands}

\* _generate_tool_plan: llm_reply is how the planning call went, llm_plan what a
\* well-formed JSON array in the reply decodes to
generate_tool_plan(has_llm, llm_reply, llm_plan, fallback, capabilities) ==
    IF ~has_llm THEN [tool_calls |-> fallback, source |-> "fallback_no_llm"]
    ELSE IF get_available_tools_for_capabilities(capabilities) = {}
    THEN [tool_calls |-> <<>>, source |-> "no_tools"]
    ELSE IF llm_reply \in {"raises", "bad_json"}
    THEN [tool_calls |-> fallback, source |-> "fallback_error"]
    ELSE IF llm_reply = "no_array"
    THEN [tool_calls |-> <<>>, source |-> "no_array"]
    ELSE [tool_calls |-> llm_plan, source |-> "llm_plan"]

route_after_permissions_open(st) == "continue"

route_after_permissions(st) ==
    IF st.permissions_validated THEN "continue" ELSE "denied"

route_after_tool_selection(st) ==
    IF Len(st.tool_calls) > 0 THEN "execute" ELSE "skip"

ErrorsOf(tool_results) == SelectSeq(tool_results, LAMBDA r : r.kind = "error")
SuccessesOf(tool_results) == SelectSeq(tool_results, LAMBDA r : r.kind = "result")

route_after_execution_strict(st) ==
    IF st.tool_results = <<>> THEN "success"
    ELSE IF ErrorsOf(st.tool_results) # <<>> THEN "error"
    ELSE "success"

route_after_execution(st) ==
    IF st.tool_results = <<>> THEN "success"
    ELSE IF ErrorsOf(st.tool_results) # <<>> /\ SuccessesOf(st.tool_results) = <<>>
         THEN "error"
    ELSE IF ErrorsOf(st.tool_results) # <<>> /\ SuccessesOf(st.tool_results) # <<>>
         THEN "partial"
    ELSE "success"

\* the conditional edges of _build_graph
EdgeAfterPermissions(label) ==
    IF label = "continue" THEN "select_tools" ELSE "generate_response"
EdgeAfterToolSelection(label) ==
    IF label = "execute" THEN "execute_task" ELSE "generate_response"
EdgeAfterExecution(label) ==
    IF label = "error" THEN "handle_error" ELSE "generate_response"

\* entries of the results list of _execute_task
ResultEntry(call, output_success) ==
    [tool |-> call.tool, path |-> call.path, kind |-> "result",
     output_success |-> output_success, error |-> None]
ErrorEntry(call, error) ==
    [tool |-> call.tool, path |-> call.path, kind |-> "error",
     output_success |-> FALSE, error |-> error]

\* text lengths of the strings the agent puts in the window
ResponseLen(response) ==
    CASE response = "llm_text" -> 12
      [] response = "template_ready" -> 71
      [] response = "template_results" -> 40
      [] OTHER -> 0

\* AgentState(current_mode, messages, session_id, user_request) of run()
InitialState(message, mode, session_id) ==
    [session_id |-> session_id, user_request |-> message, current_mode |-> mode,
     intent |-> "", response |-> "", tool_calls |-> <<>>, tool_results |-> <<>>,
     permissions_validated |-> FALSE, execution_complete |-> FALSE,
     response_generated |-> FALSE, memory_updated |-> "unset",
     has_errors |-> FALSE, error_count |-> 0, errors |-> <<>>,
     recent_tool_usage |-> "unset", memory_context |-> "unset", suggested_files |-> {},
     tool_plan_source |-> "none", memory_error |-> "none"]

NoRequest == [kw |-> {}, file |-> None, len |-> 0]
NoRouter == NewRouter(None)
NoReturn == [kind |-> "none", response |-> "", session_id |-> None]

\* no coroutine is calling the store or the agent
NoCoroutines ==
    /\ callers = <<>>
    /\ coroutines = <<>>
    /\ log = <<>>

\* no turn in progress
TurnIdle ==
    /\ patterns = NoQuery
    /\ task_history = <<>>
    /\ store_call = NoCall
    /\ turn_start = [episodes |-> 0, file_interactions |-> 0, snapshots |-> 0,
                     mem_session |-> None, store_up |-> TRUE]
    /\ model_router = NoRouter
    /\ router_call = NoRouterCall
    /\ context_window = NewContextWindow(None, DefaultTokenLimit)
    /\ state = InitialState(NoRequest, "read", None)
    /\ pc = "idle"
    /\ call_idx = 1
    /\ results = <<>>
    /\ route = None
    /\ trace = <<>>
    /\ executed = <<>>
    /\ ret = NoReturn
    /\ turns = 0

\* no turn in progress and nothing recorded yet
AgentIdle ==
    /\ mem_session = None
    /\ episodes = <<>>
    /\ snapshots = <<>>
    /\ file_interactions = <<>>
    /\ seqs = NewSequences
    /\ TurnIdle
    /\ NoCoroutines

----------------------------------------------------------------------------
(* Specification of a ContextWindow driven by arbitrary callers *)

Costs == {0, 1, 4}
\* the first item may be larger than the whole budget
CostsOfItem(n) == IF n = 0 THEN Costs \cup {TokenLimit + 1} ELSE Costs
CtxTypes == {"user_message", "tool_result"}
\* the system prompt is what a window is given first
TypesOfItem(n) == IF n = 0 THEN CtxTypes \cup {"system_prompt"} ELSE CtxTypes

NoOp == [op |-> "init", pre |-> NewContextWindow("s1", TokenLimit), ret |-> 0, item |-> NoItem]

CtxInit ==
    /\ window = NewContextWindow("s1", TokenLimit)
    /\ now = 0
    /\ next_id = 0
    /\ last_op = NoOp
    /\ AgentIdle
    /\ llm = "ok"
    /\ memory_enabled = TRUE

AddItem ==
    /\ next_id < MaxAdds
    /\ \E item_type \in TypesOfItem(next_id), token_cost \in CostsOfItem(next_id), sticky \in BOOLEAN :
         LET item == ContextItem(next_id + 1, now, item_type, token_cost, sticky,
                                 window.current_task_id, {}, 10)
         IN  /\ window' = add_item(window, item)
             /\ last_op' = [op |-> "add", pre |-> window, ret |-> 0, item |-> item]
    /\ next_id' = next_id + 1
    /\ UNCHANGED now
    /\ UNCHANGED agent_vars

PruneContext ==
    /\ window.pruning_count < MaxPrunes
    /\ LET r == prune_context(window, now)
       IN  /\ window' = r.w
           /\ last_op' = [op |-> "prune", pre |-> window, ret |-> r.ret, item |-> NoItem]
    /\ UNCHANGED <<now, next_id>>
    /\ UNCHANGED agent_vars

Clear ==
    /\ window.items # <<>>
    /\ window' = clear(window)
    /\ last_op' = [op |-> "clear", pre |-> window, ret |-> 0, item |-> NoItem]
    /\ UNCHANGED <<now, next_id>>
    /\ UNCHANGED agent_vars

Tick ==
    /\ now < MaxClock
    /\ now' = now + 1
    /\ UNCHANGED <<window, next_id, last_op>>
    /\ UNCHANGED agent_vars

CtxNext == AddItem \/ PruneContext \/ Clear \/ Tick

SpecCtx == CtxInit /\ [][CtxNext]_vars

----------------------------------------------------------------------------
(* Specification of the agent: turns of run(), one after the other *)

Sessions == {"s1"}
RequestKw == {{}, {"read"}, {"write"}, {"search"}, {"delete"}, {"execute"}, {"read", "write"}}
RequestFiles == {"src/main.py"}
Requests == {[kw |-> k, file |-> f, len |-> 8] : k \in RequestKw, f \in RequestFiles}

\* what the planning LLM may answer: any list of calls, well-formed or not
PlanCalls == {PlannedCall("write_file", "src/main.py"), PlannedCall("no_such_tool", "src/main.py"),
              MalformedCall}
\* (the loop of _execute_task ends at the first malformed entry, so one is only
\* ever put last)
LLMPlans == {p \in UNION {[1..n -> PlanCalls] : n \in 0..MaxPlan} :
                \A k \in 1..(Len(p) - 1) : p[k].wellformed}

\* how the planning call ends: the client raises, the reply holds a bracketed text that
\* is not JSON, the reply holds no array at all, or it holds a JSON array
LLMReplies == {"raises", "bad_json", "no_array", "plan"}

\* how a tool's execute() ends: ToolOutput(success=True), ToolOutput(success=False), or an exception
ToolOutcomes == {"ok", "failed", "raises"}

\* file_paths[:1]: the list is built from a set, any element can come first
FirstPaths(file_paths) == IF file_paths = {} THEN {None} ELSE file_paths

\* a session the agent served before the turns followed here
EarlierSessions == {"s0"}
\* what the tool_executions table may hold when the agent is met
EarlierEpisodes ==
    {<<>>, record_tool_execution(<<>>, 0, "s1", "no_such_tool", "none", FALSE).rows}

store_vars == <<mem_session, episodes, snapshots, file_interactions, seqs>>
other_vars == <<task_history, store_call, callers, coroutines, log, router_call>>
aux_vars == <<patterns, turn_start, other_vars>>
loop_vars == <<call_idx, results>>

AgentInit ==
    /\ window = NewContextWindow("s1", TokenLimit)
    /\ now = 0
    /\ next_id = 0
    /\ last_op = NoOp
    /\ TurnIdle
    /\ NoCoroutines
    /\ llm \in {"none", "ok"}
    /\ memory_enabled \in BOOLEAN
    \* the agent is met between two turns: just constructed, over a new database file
    \* or over the one an earlier process left, or after it has served a session
    /\ mem_session \in (IF memory_enabled THEN {None} \cup Sessions \cup EarlierSessions
                        ELSE {None})
    /\ episodes \in (IF memory_enabled THEN EarlierEpisodes ELSE {<<>>})
    /\ snapshots = <<>>
    /\ file_interactions = <<>>
    /\ seqs = [NewSequences EXCEPT !.tool_executions = Len(episodes)]

Goto(stage) ==
    /\ pc' = stage
    /\ trace' = Append(trace, stage)

\* run(): set up router, model, context window and initial state, then start the graph
Run ==
    /\ pc = "idle"
    /\ turns < MaxTurns
    /\ turns' = turns + 1
    /\ \E message \in Requests, mode \in AgentMode, session_id \in Sessions, router_ok \in BOOLEAN :
         /\ model_router' = NewRouter(session_id)
         /\ IF ~router_ok /\ llm = "none"
            THEN \* get_model failed and there is no LLM from the constructor: re-raise
                 /\ ret' = [kind |-> "raised", response |-> "", session_id |-> session_id]
                 /\ pc' = "idle"
                 /\ trace' = <<>>
                 /\ state' = InitialState(NoRequest, "read", None)
                 /\ UNCHANGED <<llm, context_window, next_id>>
            ELSE LET system_prompt == ContextItem(next_id + 1, now, "system_prompt",
                                                  estimate_tokens(SystemPromptLen), TRUE,
                                                  None, {}, 10)
                     user_msg == ContextItem(next_id + 2, now, "user_message",
                                             estimate_tokens(message.len), FALSE,
                                             None, {}, 10)
                 IN  /\ llm' = IF router_ok THEN "ok" ELSE llm
                     /\ context_window' =
                            add_item(add_item(NewContextWindow(session_id, DefaultTokenLimit),
                                              system_prompt), user_msg)
                     /\ next_id' = next_id + 2
                     /\ state' = InitialState(message, mode, session_id)
                     /\ ret' = NoReturn
                     /\ pc' = "classify_intent"
                     /\ trace' = <<"classify_intent">>
    /\ call_idx' = 1
    /\ results' = <<>>
    /\ route' = None
    /\ executed' = <<>>
    /\ \E store_up \in (IF memory_enabled THEN BOOLEAN ELSE {TRUE}) :
         turn_start' = [episodes |-> Len(episodes),
                        file_interactions |-> Len(file_interactions),
                        snapshots |-> Len(snapshots),
                        mem_session |-> mem_session,
                        store_up |-> store_up]
    /\ UNCHANGED <<memory_enabled, store_vars, patterns, other_vars>>
    /\ UNCHANGED <<window, now, last_op>>

\* _classify_intent
ClassifyIntent ==
    /\ pc = "classify_intent"
    /\ LET stats_ok == memory_enabled /\ turn_start.store_up
       IN  \* get_tool_statistics answers or raises; the failure is caught and logged
           state' = [state EXCEPT !.intent = classify_intent_simple(state.user_request),
                                  !.recent_tool_usage = IF stats_ok THEN "set" ELSE "unset"]
    /\ Goto("validate_permissions")
    /\ UNCHANGED <<llm, memory_enabled, model_router, context_window, store_vars, loop_vars,
                   route, executed, ret, turns, aux_vars>>
    /\ UNCHANGED ctx_vars

\* _validate_permissions, then the conditional edge _route_after_permissions
ValidatePermissions ==
    /\ pc = "validate_permissions"
    /\ LET capabilities == get_mode_capabilities(state.current_mode)
           required_capability == get_required_capability(state.intent)
           st == IF ~has_capability(capabilities, required_capability)
                 THEN [state EXCEPT !.response = "permission_denied"]
                 ELSE [state EXCEPT !.permissions_validated = TRUE]
       IN  /\ state' = st
           /\ route' = route_after_permissions(st)
           /\ Goto(EdgeAfterPermissions(route_after_permissions(st)))
    /\ UNCHANGED <<llm, memory_enabled, model_router, context_window, store_vars, loop_vars,
                   executed, ret, turns, aux_vars>>
    /\ UNCHANGED ctx_vars

\* _select_tools with _generate_tool_plan, then _route_after_tool_selection
SelectTools ==
    /\ pc = "select_tools"
    /\ \E llm_reply \in (IF llm = "none" THEN {"raises"} ELSE LLMReplies) :
       \E llm_plan \in (IF llm_reply = "plan" THEN LLMPlans ELSE {<<>>}),
          first_path \in (IF llm_reply = "raises" \/ llm_reply = "bad_json"
                          THEN FirstPaths(extract_file_paths(state.user_request))
                          ELSE {None}) :
         LET capabilities == get_mode_capabilities(state.current_mode)
             lookup_ok == memory_enabled /\ turn_start.store_up
             files_mentioned == extract_file_paths(state.user_request)
             co_edit_patterns == CoEditGroups(file_interactions, SuggestMinCount,
                                              DefaultWithinSeconds)
             fallback == generate_tool_plan_fallback(state.intent, files_mentioned,
                                                     first_path, capabilities)
             plan == generate_tool_plan(llm # "none", llm_reply, llm_plan, fallback,
                                        capabilities)
             st == [state EXCEPT
                      !.memory_context = IF lookup_ok THEN "set" ELSE "unset",
                      !.suggested_files = IF lookup_ok
                                          THEN suggested_files(co_edit_patterns, files_mentioned)
                                          ELSE {},
                      !.tool_calls = plan.tool_calls,
                      !.tool_plan_source = plan.source]
         IN  /\ state' = st
             /\ route' = route_after_tool_selection(st)
             /\ Goto(EdgeAfterToolSelection(route_after_tool_selection(st)))
    /\ UNCHANGED <<llm, memory_enabled, model_router, context_window, store_vars, loop_vars,
                   executed, ret, turns, aux_vars>>
    /\ UNCHANGED ctx_vars

\* _execute_task: one iteration of the loop over the planned calls
ExecuteTaskCall ==
    /\ pc = "execute_task"
    /\ call_idx <= Len(state.tool_calls)
    /\ LET call == state.tool_calls[call_idx]
       IN  IF ~call.wellformed
           THEN \* tool_call["tool"] / tool_call["parameters"] raises outside the try:
                \* the exception leaves _execute_task, the graph and run()
                /\ ret' = [kind |-> "raised", response |-> "", session_id |-> state.session_id]
                /\ pc' = "idle"
                /\ results' = <<>>
                /\ call_idx' = 1
                /\ UNCHANGED <<executed, trace>>
           ELSE /\ call_idx' = call_idx + 1
                /\ UNCHANGED <<ret, pc, trace>>
                /\ IF call.tool \notin ToolNames
                   THEN /\ results' = Append(results, ErrorEntry(call, "not_found"))
                        /\ UNCHANGED executed
                   ELSE LET tracked == memory_enabled /\ mem_session # None
                            t == track_tool_execution(episodes, file_interactions, seqs,
                                                      mem_session, "execute", "coroutine",
                                                      TRUE, call.path, now)
                        IN  IF tracked /\ t.raised
                            THEN \* the wrapper raises before the coroutine is awaited:
                                 \* the tool body never runs
                                 /\ results' = Append(results,
                                                      ErrorEntry(call, "not_serializable"))
                                 /\ UNCHANGED executed
                            ELSE \E outcome \in ToolOutcomes :
                                 /\ executed' = Append(executed, call.tool)
                                 /\ results' = Append(results,
                                       IF outcome = "raises" THEN ErrorEntry(call, "tool_raised")
                                       ELSE ResultEntry(call, outcome = "ok"))
    /\ LET call == state.tool_calls[call_idx]
           t == track_tool_execution(episodes, file_interactions, seqs, mem_session,
                                     "execute", "coroutine", TRUE, call.path, now)
       IN  IF call.wellformed /\ call.tool \in ToolNames /\ memory_enabled
              /\ mem_session # None
           THEN /\ episodes' = t.episodes
                /\ file_interactions' = t.file_interactions
                /\ seqs' = t.seqs
           ELSE UNCHANGED <<episodes, file_interactions, seqs>>
    /\ UNCHANGED <<llm, memory_enabled, model_router, context_window, mem_session, snapshots,
                   state, route, turns, aux_vars>>
    /\ UNCHANGED ctx_vars

\* _execute_task: after the loop, store the results; then _route_after_execution
ExecuteTaskReturn ==
    /\ pc = "execute_task"
    /\ call_idx > Len(state.tool_calls)
    /\ LET st == [state EXCEPT !.tool_results = results, !.execution_complete = TRUE]
       IN  /\ state' = st
           /\ route' = route_after_execution(st)
           /\ Goto(EdgeAfterExecution(route_after_execution(st)))
    /\ UNCHANGED <<llm, memory_enabled, model_router, context_window, store_vars, loop_vars,
                   executed, ret, turns, aux_vars>>
    /\ UNCHANGED ctx_vars

\* _handle_error
HandleError ==
    /\ pc = "handle_error"
    /\ state' = [state EXCEPT !.has_errors = TRUE,
                              !.error_count = Len(ErrorsOf(state.tool_results)),
                              !.errors = ErrorsOf(state.tool_results)]
    /\ Goto("generate_response")
    /\ UNCHANGED <<llm, memory_enabled, model_router, context_window, store_vars, loop_vars,
                   route, executed, ret, turns, aux_vars>>
    /\ UNCHANGED ctx_vars

\* _generate_response_fallback
generate_response_fallback(tool_results) ==
    IF tool_results # <<>> THEN "template_results" ELSE "template_ready"

\* _generate_response
GenerateResponse ==
    /\ pc = "generate_response"
    /\ \E llm_ok \in BOOLEAN :
         LET response == IF llm = "none" THEN generate_response_fallback(state.tool_results)
                         ELSE IF llm_ok THEN "llm_text"
                         ELSE generate_response_fallback(state.tool_results)
             item == ContextItem(next_id + 1, now, "assistant_response",
                                 estimate_tokens(ResponseLen(response)), FALSE,
                                 context_window.current_task_id, {}, 10)
         IN  /\ state' = [state EXCEPT !.response = response, !.response_generated = TRUE]
             /\ IF llm # "none" /\ context_window.session_id # None
                THEN /\ context_window' = add_item(context_window, item)
                     /\ next_id' = next_id + 1
                ELSE UNCHANGED <<context_window, next_id>>
    /\ Goto("update_memory")
    /\ UNCHANGED <<llm, memory_enabled, model_router, store_vars, loop_vars,
                   route, executed, ret, turns, aux_vars>>
    /\ UNCHANGED <<window, now, last_op>>

\* _update_memory
UpdateMemory ==
    /\ pc = "update_memory"
    /\ IF ~memory_enabled
       THEN /\ state' = [state EXCEPT !.memory_updated = "false"]
            /\ UNCHANGED store_vars
       ELSE LET store_ok == turn_start.store_up
                rec == record_results(episodes, seqs.tool_executions, state.session_id,
                                      state.tool_results)
            IN  /\ mem_session' = state.session_id
                /\ UNCHANGED file_interactions
                /\ seqs' = IF store_ok THEN [seqs EXCEPT !.tool_executions = rec.seq]
                           ELSE seqs
                /\ IF ~store_ok
                   THEN \* the database refuses the first statement
                        /\ UNCHANGED <<episodes, snapshots>>
                        /\ state' = [state EXCEPT !.memory_updated = "false",
                                                  !.memory_error = "store_error"]
                   ELSE IF rec.raised
                   THEN \* json.dumps of a result raised: the rows before it stay
                        /\ episodes' = rec.rows
                        /\ UNCHANGED snapshots
                        /\ state' = [state EXCEPT !.memory_updated = "false",
                                                  !.memory_error = "type_error"]
                   ELSE /\ episodes' = rec.rows
                        /\ snapshots' = Append(snapshots, [session_id |-> state.session_id,
                                                           reason |-> "task_completion"])
                        /\ state' = [state EXCEPT !.memory_updated = "true"]
    /\ pc' = "END"
    /\ UNCHANGED <<llm, memory_enabled, model_router, context_window, loop_vars,
                   route, trace, executed, ret, turns, aux_vars>>
    /\ UNCHANGED ctx_vars

\* run(): the graph reached END; attach the cost summary and return the result
Return ==
    /\ pc = "END"
    /\ ret' = [kind |-> "returned", response |-> state.response, session_id |-> state.session_id]
    /\ pc' = "idle"
    /\ UNCHANGED <<llm, memory_enabled, model_router, context_window, store_vars, state,
                   loop_vars, route, trace, executed, turns, aux_vars>>
    /\ UNCHANGED ctx_vars

AgentNext ==
    \/ Run
    \/ ClassifyIntent
    \/ ValidatePermissions
    \/ SelectTools
    \/ ExecuteTaskCall
    \/ ExecuteTaskReturn
    \/ HandleError
    \/ GenerateResponse
    \/ UpdateMemory
    \/ Return

SpecAgent == AgentInit /\ [][AgentNext]_vars

----------------------------------------------------------------------------
(* Specification of the episodic store's file_interactions table, written to *)
(* by record_file_interaction and read by find_co_edit_patterns              *)

StoreSessions == {"s1", "s2"}
\* the interactions the session at work records: which file it touched how
StoreInputs ==
    {[session_id |-> "s1", file_path |-> "a.py", operation |-> "edit"],
     [session_id |-> "s1", file_path |-> "b.py", operation |-> "edit"],
     [session_id |-> "s1", file_path |-> "c.py", operation |-> "write"],
     [session_id |-> "s1", file_path |-> "b.py", operation |-> "read"]}
\* the table as the session at work finds it: empty, or holding the rows of an
\* earlier session that edited a.py and then b.py
EarlierInteractions ==
    {<<>>,
     record_file_interaction(
         record_file_interaction(<<>>, 0, "s2", "a.py", "edit", TRUE, 0).rows,
         1, "s2", "b.py", "edit", TRUE, 0).rows}
\* the rows session_id recorded
RowsOfSession(rows, session_id) ==
    SelectSeq(rows, LAMBDA r : r.session_id = session_id)
MinCounts == {1, 2}
WithinSeconds == {0, 1}

StoreInit ==
    /\ window = NewContextWindow("s1", TokenLimit)
    /\ now = 0
    /\ next_id = 0
    /\ last_op = NoOp
    /\ mem_session = None
    /\ episodes = <<>>
    /\ snapshots = <<>>
    /\ file_interactions \in EarlierInteractions
    /\ seqs = [NewSequences EXCEPT !.file_interactions = Len(file_interactions)]
    /\ TurnIdle
    /\ NoCoroutines
    /\ llm = "ok"
    /\ memory_enabled = TRUE

store_idle_vars == <<window, next_id, last_op, llm, memory_enabled, mem_session, episodes,
                     snapshots, turn_start, model_router, context_window, state, pc,
                     call_idx, results, route, trace, executed, ret, turns, other_vars>>

\* record_file_interaction, stamped with datetime.now()
RecordFileInteraction ==
    /\ Len(RowsOfSession(file_interactions, "s1")) < MaxRows
    /\ \E r \in StoreInputs :
         LET rec == record_file_interaction(file_interactions, seqs.file_interactions,
                        r.session_id, r.file_path, r.operation, TRUE, now)
         IN  /\ file_interactions' = rec.rows
             /\ seqs' = [seqs EXCEPT !.file_interactions = rec.seq]
    /\ patterns' = NoQuery
    /\ UNCHANGED now
    /\ UNCHANGED store_idle_vars

\* a second passes
TickSecond ==
    /\ now < MaxSeconds
    /\ now' = now + 1
    /\ patterns' = NoQuery
    /\ UNCHANGED <<file_interactions, seqs>>
    /\ UNCHANGED store_idle_vars

\* find_co_edit_patterns(min_count, within_seconds)
FindCoEditPatterns ==
    \* (asked once per table and second: a repeated call reads the same table)
    /\ ~patterns.asked
    /\ \E min_count \in MinCounts, within_seconds \in WithinSeconds :
       \E out \in find_co_edit_patterns(file_interactions, min_count, within_seconds) :
         patterns' = [asked |-> TRUE, min_count |-> min_count,
                      within_seconds |-> within_seconds, rows |-> out]
    /\ UNCHANGED <<file_interactions, seqs, now>>
    /\ UNCHANGED store_idle_vars

StoreNext == RecordFileInteraction \/ TickSecond \/ FindCoEditPatterns

SpecStore == StoreInit /\ [][StoreNext]_vars

----------------------------------------------------------------------------
(* Specification of the episodic store called directly: the tables             *)
(* tool_executions, file_interactions and task_history and their sequences    *)

TaskIds == {"t1", "t2"}
\* what callers record: results that are plain data, and one json.dumps refuses
EpisodeInputs ==
    {[session_id |-> "s1", tool_name |-> "read_file", result_kind |-> "data"],
     [session_id |-> "s2", tool_name |-> "read_file", result_kind |-> "data"],
     [session_id |-> "s1", tool_name |-> "read_file", result_kind |-> "tool_output"]}
InteractionInputs ==
    {[session_id |-> "s1", file_path |-> "a.py", operation |-> "edit"],
     [session_id |-> "s2", file_path |-> "a.py", operation |-> "read"]}
CompleteInputs ==
    {[outcome |-> "done", files_touched |-> {"a.py"}, tools_used |-> {"read_file"}],
     [outcome |-> "redone", files_touched |-> {}, tools_used |-> {}]}

TablesNow == Tables(episodes, file_interactions, task_history)
Inserts == seqs.tool_executions + seqs.file_interactions + seqs.task_history

TablesInit ==
    /\ window = NewContextWindow("s1", TokenLimit)
    /\ now = 0
    /\ next_id = 0
    /\ last_op = NoOp
    /\ AgentIdle
    /\ llm = "ok"
    /\ memory_enabled = TRUE

tables_idle_vars == <<window, next_id, last_op, llm, memory_enabled, mem_session,
                      snapshots, patterns, turn_start, model_router, context_window, state,
                      pc, call_idx, results, route, trace, executed, ret, turns, callers,
                      coroutines, log, router_call>>

\* record_tool_execution(session_id, tool_name, parameters, result, success)
RecordToolExecution ==
    /\ Inserts < MaxInserts
    /\ \E a \in EpisodeInputs :
         LET rec == record_tool_execution(episodes, seqs.tool_executions, a.session_id,
                                          a.tool_name, a.result_kind, TRUE)
         IN  /\ episodes' = rec.rows
             /\ seqs' = [seqs EXCEPT !.tool_executions = rec.seq]
             /\ store_call' = [NoCall EXCEPT
                                 !.op = "record_tool_execution",
                                 !.args = EpisodeRow(a.session_id, a.tool_name, TRUE),
                                 !.raised = rec.raised, !.id = rec.id, !.pre = TablesNow]
    /\ UNCHANGED <<file_interactions, task_history, now>>
    /\ UNCHANGED tables_idle_vars

\* record_file_interaction(session_id, file_path, operation, success)
RecordInteraction ==
    /\ Inserts < MaxInserts
    /\ \E a \in InteractionInputs :
         LET rec == record_file_interaction(file_interactions, seqs.file_interactions,
                        a.session_id, a.file_path, a.operation, TRUE, now)
         IN  /\ file_interactions' = rec.rows
             /\ seqs' = [seqs EXCEPT !.file_interactions = rec.seq]
             /\ store_call' = [NoCall EXCEPT
                                 !.op = "record_file_interaction",
                                 !.args = FileInteractionRow(a.session_id, a.file_path,
                                                             a.operation, TRUE, now),
                                 !.id = rec.id, !.pre = TablesNow]
    /\ UNCHANGED <<episodes, task_history, now>>
    /\ UNCHANGED tables_idle_vars

\* create_task(task_id, session_id, description)
CreateTask ==
    /\ Inserts < MaxInserts
    /\ \E task_id \in TaskIds :
       \E consumed \in (IF TaskExists(task_history, task_id) THEN BOOLEAN ELSE {FALSE}) :
         LET r == create_task(task_history, seqs.task_history, task_id, "s1", now, consumed)
         IN  /\ task_history' = r.rows
             /\ seqs' = [seqs EXCEPT !.task_history = r.seq]
             /\ store_call' = [NoCall EXCEPT
                                 !.op = "create_task", !.task_id = task_id,
                                 !.raised = r.raised, !.id = r.id, !.pre = TablesNow]
    /\ UNCHANGED <<episodes, file_interactions, now>>
    /\ UNCHANGED tables_idle_vars

\* complete_task(task_id, outcome, files_touched, tools_used)
CompleteTask ==
    /\ \E task_id \in TaskIds, a \in CompleteInputs :
         LET r == complete_task(task_history, task_id, a.outcome, a.files_touched,
                                a.tools_used, now)
         IN  /\ task_history' = r.rows
             /\ store_call' = [NoCall EXCEPT
                                 !.op = "complete_task", !.task_id = task_id, !.args = a,
                                 !.found = r.found, !.pre = TablesNow]
    /\ UNCHANGED <<episodes, file_interactions, seqs, now>>
    /\ UNCHANGED tables_idle_vars

\* a second passes between two calls
TablesTick ==
    /\ now < MaxSeconds
    /\ now' = now + 1
    /\ UNCHANGED <<episodes, file_interactions, task_history, seqs, store_call>>
    /\ UNCHANGED tables_idle_vars

TablesNext ==
    \/ RecordToolExecution
    \/ RecordInteraction
    \/ CreateTask
    \/ CompleteTask
    \/ TablesTick

SpecTables == TablesInit /\ [][TablesNext]_vars

----------------------------------------------------------------------------
(* Specification of coroutines of two sessions recording on the one store:    *)
(* each record_* call is an INSERT followed by SELECT currval(...)            *)

Callers == {"c1", "c2"}
SessionOf(c) == IF c = "c1" THEN "s1" ELSE "s2"
NoRecord == [pc |-> "ready", op |-> None, inserted |-> 0, id |-> 0, calls |-> 0]

\* the coroutines run on one event loop and record_* has no await: a coroutine
\* that began a call keeps the thread until the call returns
MayRunAnyTime(c) == TRUE
MayRun(c) == \A d \in Callers \ {c} : callers[d].pc = "ready"

ConcInit ==
    /\ window = NewContextWindow("s1", TokenLimit)
    /\ now = 0
    /\ next_id = 0
    /\ last_op = NoOp
    /\ mem_session = None
    /\ episodes = <<>>
    /\ snapshots = <<>>
    /\ file_interactions = <<>>
    /\ seqs = NewSequences
    /\ TurnIdle
    /\ callers = [c \in Callers |-> NoRecord]
    /\ coroutines = <<>>
    /\ log = <<>>
    /\ llm = "ok"
    /\ memory_enabled = TRUE

conc_idle_vars == <<window, now, next_id, last_op, llm, memory_enabled, mem_session,
                    snapshots, task_history, store_call, patterns, turn_start, model_router,
                    context_window, state, pc, call_idx, results, route, trace, executed,
                    ret, turns, coroutines, log, router_call>>

\* record_tool_execution: the INSERT INTO tool_executions
InsertEpisode(c) ==
    /\ callers[c].pc = "ready"
    /\ MayRun(c)
    /\ Inserts < MaxInserts
    /\ LET ins == InsertRow(episodes, seqs.tool_executions,
                            EpisodeRow(SessionOf(c), "read_file", TRUE))
       IN  /\ episodes' = ins.rows
           /\ seqs' = [seqs EXCEPT !.tool_executions = ins.seq]
           /\ callers' = [callers EXCEPT ![c] =
                            [pc |-> "inserted", op |-> "record_tool_execution",
                             inserted |-> ins.seq, id |-> 0, calls |-> @.calls + 1]]
    /\ UNCHANGED file_interactions
    /\ UNCHANGED conc_idle_vars

\* record_file_interaction: the INSERT INTO file_interactions
InsertInteraction(c) ==
    /\ callers[c].pc = "ready"
    /\ MayRun(c)
    /\ Inserts < MaxInserts
    /\ LET ins == InsertRow(file_interactions, seqs.file_interactions,
                            FileInteractionRow(SessionOf(c), "a.py", "edit", TRUE, now))
       IN  /\ file_interactions' = ins.rows
           /\ seqs' = [seqs EXCEPT !.file_interactions = ins.seq]
           /\ callers' = [callers EXCEPT ![c] =
                            [pc |-> "inserted", op |-> "record_file_interaction",
                             inserted |-> ins.seq, id |-> 0, calls |-> @.calls + 1]]
    /\ UNCHANGED episodes
    /\ UNCHANGED conc_idle_vars

\* record_*: SELECT currval(...) and return its value
SelectCurrval(c) ==
    /\ callers[c].pc = "inserted"
    /\ MayRun(c)
    /\ callers' = [callers EXCEPT ![c] =
                     [@ EXCEPT !.pc = "ready",
                               !.id = IF callers[c].op = "record_tool_execution"
                                      THEN currval(seqs.tool_executions)
                                      ELSE currval(seqs.file_interactions)]]
    /\ UNCHANGED <<episodes, file_interactions, seqs>>
    /\ UNCHANGED conc_idle_vars

ConcNext ==
    \E c \in Callers :
        \/ InsertEpisode(c)
        \/ InsertInteraction(c)
        \/ SelectCurrval(c)

SpecConc == ConcInit /\ [][ConcNext]_vars

----------------------------------------------------------------------------
(* Specification of run() called concurrently on one AircherAgent: each call  *)
(* is a coroutine, and graph.ainvoke gives the event loop back between stages *)
(* (the turns here plan no tool call, so no stage awaits inside)              *)

Runs == {"r1", "r2"}
\* the stages a turn goes through when permission is denied, and when it is
\* granted and the plan is empty
StagesOfTurn ==
    {<<"classify_intent", "validate_permissions", "generate_response", "update_memory">>,
     <<"classify_intent", "validate_permissions", "select_tools", "generate_response",
       "update_memory">>}
NotCalled == [pc |-> "new", session_id |-> None, todo |-> <<>>, added |-> {}]
\* one step of a call: the shared object it used belongs to session `used`
Step(r, stage, used) == [run |-> r, stage |-> stage, used |-> used]

TurnsInit ==
    /\ window = NewContextWindow("s1", TokenLimit)
    /\ now = 0
    /\ next_id = 0
    /\ last_op = NoOp
    /\ mem_session = None
    /\ episodes = <<>>
    /\ snapshots = <<>>
    /\ file_interactions = <<>>
    /\ seqs = NewSequences
    /\ TurnIdle
    /\ callers = <<>>
    /\ coroutines = [r \in Runs |-> NotCalled]
    /\ log = <<>>
    /\ llm = "ok"
    /\ memory_enabled = FALSE

turns_idle_vars == <<window, now, last_op, llm, memory_enabled, store_vars, task_history,
                     store_call, callers, patterns, turn_start, state, pc, call_idx,
                     results, route, trace, executed, ret, turns, router_call>>

\* run() up to graph.ainvoke: a new router and a new window replace the agent's
CoRun(r) ==
    /\ coroutines[r].pc = "new"
    /\ \E session_id \in StoreSessions, stages \in StagesOfTurn :
         LET system_prompt == ContextItem(next_id + 1, now, "system_prompt",
                                          estimate_tokens(SystemPromptLen), TRUE,
                                          None, {}, 10)
             user_msg == ContextItem(next_id + 2, now, "user_message", estimate_tokens(8),
                                     FALSE, None, {}, 10)
         IN  /\ model_router' = NewRouter(session_id)
             /\ context_window' =
                    add_item(add_item(NewContextWindow(session_id, DefaultTokenLimit),
                                      system_prompt), user_msg)
             /\ next_id' = next_id + 2
             /\ coroutines' = [coroutines EXCEPT ![r] =
                                 [pc |-> "running", session_id |-> session_id,
                                  todo |-> stages, added |-> {next_id + 1, next_id + 2}]]
             /\ log' = Append(log, Step(r, "run", session_id))
    /\ UNCHANGED turns_idle_vars

\* one stage of the graph; _generate_response adds the response to self.context_window
CoStage(r) ==
    /\ coroutines[r].pc = "running"
    /\ coroutines[r].todo # <<>>
    /\ LET stage == Head(coroutines[r].todo)
           item == ContextItem(next_id + 1, now, "assistant_response",
                               estimate_tokens(ResponseLen("llm_text")), FALSE,
                               context_window.current_task_id, {}, 10)
       IN  IF stage = "generate_response" /\ llm # "none" /\ context_window.session_id # None
           THEN /\ context_window' = add_item(context_window, item)
                /\ next_id' = next_id + 1
                /\ coroutines' = [coroutines EXCEPT ![r].todo = Tail(@),
                                                    ![r].added = @ \cup {next_id + 1}]
                /\ log' = Append(log, Step(r, stage, context_window.session_id))
           ELSE /\ coroutines' = [coroutines EXCEPT ![r].todo = Tail(@)]
                /\ log' = Append(log, Step(r, stage, None))
                /\ UNCHANGED <<context_window, next_id>>
    /\ UNCHANGED model_router
    /\ UNCHANGED turns_idle_vars

\* run() after graph.ainvoke: the cost summary of self.model_router goes into the result
CoReturn(r) ==
    /\ coroutines[r].pc = "running"
    /\ coroutines[r].todo = <<>>
    /\ coroutines' = [coroutines EXCEPT ![r].pc = "returned"]
    /\ log' = Append(log, Step(r, "return", model_router.session_id))
    /\ UNCHANGED <<context_window, model_router, next_id>>
    /\ UNCHANGED turns_idle_vars

TurnsNext ==
    \E r \in Runs :
        \/ CoRun(r)
        \/ CoStage(r)
        \/ CoReturn(r)

SpecTurns == TurnsInit /\ [][TurnsNext]_vars

----------------------------------------------------------------------------
(* Specification of a ModelRouter called directly; it starts from the state  *)
(* of TablesInit, in which the agent has no router yet                       *)

\* the sets of models whose client constructs: the models of the providers
\* that can be reached, or one model alone
ModelProvider == {"openai", "anthropic", "ollama", "vllm", "openrouter"}
UpSets ==
    {{n \in ModelNames : ConfigOf(n).provider \in P} : P \in SUBSET ModelProvider}
    \cup {{n} : n \in ModelNames}
\* what callers track: a model of the catalog and a name that is not in it
UsageInputs ==
    {[model_name |-> "gpt-4o-mini", input_tokens |-> 1000, output_tokens |-> 500],
     [model_name |-> "unknown-model", input_tokens |-> 10, output_tokens |-> 5]}

router_idle_vars == <<window, now, next_id, last_op, llm, memory_enabled, store_vars,
                      task_history, store_call, callers, coroutines, log, patterns,
                      turn_start, context_window, state, pc, call_idx, results, route,
                      trace, executed, ret, turns>>

\* ModelRouter(enable_fallback=..., session_id="s1"), in a process whose keys
\* and servers let the clients of the models in up construct
CreateRouter ==
    /\ model_router.session_id = None
    /\ model_router' = NewRouter("s1")
    /\ \E up \in UpSets, enable_fallback \in BOOLEAN :
         router_call' = [NoRouterCall EXCEPT !.up = up, !.enable_fallback = enable_fallback]
    /\ UNCHANGED router_idle_vars

\* get_model(model_name)
GetModel ==
    /\ model_router.session_id # None
    /\ \E model_name \in ModelNames \cup {None, "unknown-model"} :
         LET r == get_model(model_name, DefaultModel, router_call.enable_fallback,
                            router_call.up)
         IN  router_call' = [router_call EXCEPT
                               !.op = "get_model", !.arg = model_name, !.usage = NoUsage,
                               !.tried = r.tried, !.ret = r.ret, !.raised = r.raised]
    /\ UNCHANGED model_router
    /\ UNCHANGED router_idle_vars

\* select_model_for_task(task_type)
SelectModelForTask ==
    /\ model_router.session_id # None
    /\ \E task_type \in TaskTypes \cup {"other"} :
         router_call' = [router_call EXCEPT
                           !.op = "select_model_for_task", !.arg = task_type,
                           !.ret = select_model_for_task(task_type, DefaultModel),
                           !.tried = <<>>, !.raised = FALSE, !.usage = NoUsage]
    /\ UNCHANGED model_router
    /\ UNCHANGED router_idle_vars

\* track_usage(model_name, input_tokens, output_tokens)
TrackUsage ==
    /\ model_router.session_id # None
    /\ Len(router_call.tracked) < MaxUsage
    /\ \E u \in UsageInputs :
         LET r == add_usage(model_router, u.model_name, u.input_tokens, u.output_tokens)
         IN  /\ model_router' = r.router
             /\ router_call' = [router_call EXCEPT
                                  !.op = "track_usage", !.arg = u.model_name,
                                  !.tried = <<>>, !.ret = None, !.raised = FALSE,
                                  !.usage = r.ret, !.tracked = Append(@, r.ret)]
    /\ UNCHANGED router_idle_vars

RouterNext ==
    \/ CreateRouter
    \/ GetModel
    \/ SelectModelForTask
    \/ TrackUsage

SpecRouter == TablesInit /\ [][RouterNext]_vars

----------------------------------------------------------------------------
(* Specification of functions wrapped by MemoryIntegration.track_tool_execution *)
(* and called directly; it starts from the state of TablesInit                 *)

\* the wrapped functions and what a call of one does: return plain data, return
\* an object json.dumps refuses, or raise
TrackedTools == {"sample_tool", "read_file"}
TrackedOutcomes == {"data", "tool_output", "raises"}

track_idle_vars == <<window, now, next_id, last_op, llm, memory_enabled, snapshots,
                     task_history, callers, coroutines, log, router_call, patterns,
                     turn_start, model_router, context_window, state, pc, call_idx,
                     results, route, trace, executed, ret, turns>>

\* set_context(session_id)
SetContext ==
    /\ \E session_id \in StoreSessions :
         /\ mem_session # session_id
         /\ mem_session' = session_id
    /\ UNCHANGED <<episodes, file_interactions, seqs, store_call>>
    /\ UNCHANGED track_idle_vars

\* a call of the wrapper: reached is what the caller gets, the function's value
\* or exception, or the TypeError of the recording
TrackedCall ==
    /\ Inserts < MaxInserts
    /\ \E tool_name \in TrackedTools, outcome \in TrackedOutcomes :
         LET t == track_tool_execution(episodes, file_interactions, seqs, mem_session,
                                       tool_name,
                                       IF outcome = "raises" THEN "none" ELSE outcome,
                                       outcome # "raises", "a.py", now)
         IN  /\ episodes' = t.episodes
             /\ file_interactions' = t.file_interactions
             /\ seqs' = t.seqs
             /\ store_call' = [NoCall EXCEPT
                                 !.op = "tracked_call",
                                 !.args = [tool_name |-> tool_name, outcome |-> outcome,
                                           reached |-> IF t.raised THEN "TypeError"
                                                       ELSE outcome],
                                 !.raised = t.raised \/ outcome = "raises",
                                 !.pre = TablesNow]
    /\ UNCHANGED <<mem_session, task_history>>
    /\ UNCHANGED track_idle_vars

SpecTrack == TablesInit /\ [][SetContext \/ TrackedCall]_vars

----------------------------------------------------------------------------
(* Properties of the ContextWindow *)

ItemIds(w) == {w.items[i].id : i \in 1..Len(w.items)}
StickyIds(w) == {w.items[i].id : i \in {j \in 1..Len(w.items) : w.items[j].sticky}}

\* the window a prune started from: for an add that pruned, the window with the item appended
PrunedFrom ==
    IF last_op.op = "add"
    THEN [last_op.pre EXCEPT !.items = Append(last_op.pre.items, last_op.item),
                             !.token_count = last_op.pre.token_count + last_op.item.token_cost]
    ELSE last_op.pre

\* the last call ran the body of prune_context
Pruned ==
    \/ last_op.op = "prune"
    \/ last_op.op = "add" /\ window.pruning_count > last_op.pre.pruning_count

RemovedTokens == PrunedFrom.token_count - window.token_count

\* C1: after any sequence of add_item, prune_context and clear calls, token_count
\* equals the sum of token_cost over the items currently in the window.
C1_TokenCountIsSum == window.token_count = SumCost(window.items)

C1_Witness ==
    /\ last_op.op = "prune"
    /\ last_op.ret > 0
    /\ window.items # <<>>
    /\ window.token_count > 0

\* C2: a sticky item is never among the removal candidates of prune_context, and
\* every sticky item that was in the window (or was just added) is still in it
\* after an add_item or prune_context call.
C2_StickyNeverPruned ==
    /\ \A i \in RemovedIdx(window, now) : ~window.items[i].sticky
    /\ last_op.op \in {"add", "prune"} => StickyIds(PrunedFrom) \subseteq ItemIds(window)

C2_Witness ==
    /\ Pruned
    /\ RemovedTokens > 0
    /\ StickyIds(PrunedFrom) # {}
    /\ \E i \in 1..Len(PrunedFrom.items) :
         /\ PrunedFrom.items[i].sticky
         /\ PrunedFrom.items[i].item_type = "tool_result"
         /\ PrunedFrom.items[i].token_cost > 0

----------------------------------------------------------------------------
(* Properties of the agent's turn *)

\* the complete stage sequences the graph of _build_graph allows
AllowedTraces ==
    {<<"classify_intent", "validate_permissions", "generate_response", "update_memory">>,
     <<"classify_intent", "validate_permissions", "select_tools", "generate_response",
       "update_memory">>,
     <<"classify_intent", "validate_permissions", "select_tools", "execute_task",
       "generate_response", "update_memory">>,
     <<"classify_intent", "validate_permissions", "select_tools", "execute_task",
       "handle_error", "generate_response", "update_memory">>}

IsPrefix(s, t) == Len(s) <= Len(t) /\ SubSeq(t, 1, Len(s)) = s

Ran(stage) == \E k \in 1..Len(trace) : trace[k] = stage
TimesRan(stage) == Cardinality({k \in 1..Len(trace) : trace[k] = stage})

\* a turn whose graph was started is over: run() returned or raised
TurnOver == pc = "idle" /\ trace # <<>>

\* the stage entered right after `stage`, or None
StageAfter(stage) ==
    IF \E k \in 1..(Len(trace) - 1) : trace[k] = stage
    THEN trace[(CHOOSE k \in 1..(Len(trace) - 1) : trace[k] = stage) + 1]
    ELSE None

\* the (mode, intent) pairs the claims say are denied
DeniedPairs ==
    {<<"read", "write">>, <<"read", "execute">>, <<"read", "delete">>, <<"edit", "delete">>}

ValidatedPermissions == Ran("validate_permissions") /\ pc # "validate_permissions"

\* C4: in every turn the stages run in the order of the graph, each at most once,
\* generate_response and update_memory exactly once, and handle_error is followed
\* by generate_response, never by execute_task.
C4_StageOrder ==
    /\ \E t \in AllowedTraces : IsPrefix(trace, t)
    /\ TurnOver =>
         /\ trace \in AllowedTraces
         /\ TimesRan("generate_response") = 1
         /\ TimesRan("update_memory") = 1

\* C5: when the mode lacks the capability the intent requires, validate_permissions
\* is followed directly by generate_response; select_tools and execute_task do not
\* run, nothing is planned and no tool is executed in the turn.
C5_DeniedSkipsTools ==
    (ValidatedPermissions /\ <<state.current_mode, state.intent>> \in DeniedPairs) =>
        /\ ~state.permissions_validated
        /\ StageAfter("validate_permissions") = "generate_response"
        /\ ~Ran("select_tools")
        /\ ~Ran("execute_task")
        /\ state.tool_calls = <<>>
        /\ executed = <<>>

C5_Witness ==
    /\ pc = "idle"
    /\ ret.kind = "returned"
    /\ <<state.current_mode, state.intent>> = <<"read", "write">>
    /\ trace = <<"classify_intent", "validate_permissions", "generate_response",
                 "update_memory">>

\* the capability each intent requires, as the claim states it
ClaimedCapability(intent) ==
    CASE intent \in {"read", "search", "general"} -> "can_read_files"
      [] intent \in {"write", "execute"} -> "can_write_files"
      [] intent = "delete" -> "can_execute_commands"

\* C6: permission is granted exactly when the mode table grants the capability the
\* intent requires (read/search/general: read; write/execute: write; delete:
\* execute): read mode denies write, execute and delete, edit mode denies only
\* delete, turbo mode denies nothing.
C6_PermissionTable ==
    ValidatedPermissions =>
        /\ state.permissions_validated
             <=> MODE_CAPABILITIES[state.current_mode][ClaimedCapability(state.intent)]
        /\ state.permissions_validated
             <=> <<state.current_mode, state.intent>> \notin DeniedPairs

C6_Witness ==
    /\ pc = "generate_response"
    /\ state.current_mode = "edit"
    /\ state.intent = "delete"
    /\ ~state.permissions_validated

\* C7: when permission is denied, the response run() returns is the permission-denied
\* explanation produced by validate_permissions.
C7_DeniedResponseReturned ==
    (pc = "idle" /\ ret.kind = "returned" /\ Ran("validate_permissions")
       /\ ~state.permissions_validated)
        => ret.response = "permission_denied"

\* C8: every turn ends with run() returning a result that carries a response string;
\* an exception thrown inside a stage does not propagate out of run().
C8_RunAlwaysReturns ==
    TurnOver => (ret.kind = "returned" /\ ret.response # "")

NumErrors(tool_results) ==
    Cardinality({k \in 1..Len(tool_results) : tool_results[k].kind = "error"})

\* C9: after execute_task the route is success when no call failed, error when every
\* call failed and partial when some but not all failed; success and partial lead to
\* generate_response, error leads to handle_error and from there to generate_response.
C9_RouteAfterExecution ==
    state.execution_complete =>
        LET n == Len(state.tool_results)
            nerr == NumErrors(state.tool_results)
        IN  /\ n = Len(state.tool_calls)
            /\ nerr = 0 => route = "success"
            /\ (nerr = n /\ n > 0) => route = "error"
            /\ (0 < nerr /\ nerr < n) => route = "partial"
            /\ StageAfter("execute_task") =
                 (IF route = "error" THEN "handle_error" ELSE "generate_response")
            /\ Ran("handle_error") => route = "error"
            /\ (Ran("handle_error") /\ pc # "handle_error")
                 => StageAfter("handle_error") = "generate_response"

C9_Witness ==
    /\ pc = "generate_response"
    /\ state.execution_complete
    /\ route = "partial"
    /\ Len(state.tool_results) = 2
    /\ state.tool_results[1].kind = "result"
    /\ state.tool_results[2].kind = "error"

\* C10: execute_task runs the planned calls one at a time in plan order and leaves
\* exactly one result per planned call, in plan order; a failing call does not keep
\* the later calls from running and being recorded.
C10_OneResultPerCall ==
    (Ran("execute_task") /\ pc # "execute_task") =>
        /\ Len(state.tool_results) = Len(state.tool_calls)
        /\ \A k \in 1..Len(state.tool_calls) :
             state.tool_results[k].tool = state.tool_calls[k].tool

----------------------------------------------------------------------------
(* Properties of the turn's use of the episodic store *)

\* run() returned from a turn whose graph was started
TurnReturned == pc = "idle" /\ trace # <<>> /\ ret.kind = "returned"

\* the rows the turn in progress added to each table
TurnEpisodes == SubSeq(episodes, turn_start.episodes + 1, Len(episodes))
TurnFileInteractions ==
    SubSeq(file_interactions, turn_start.file_interactions + 1, Len(file_interactions))

\* C11: with memory enabled (and the database answering), a turn adds exactly one
\* Episode per tool call of the turn, in order, carrying the planned tool name and
\* whether the call succeeded; a single read_file call adds one read_file Episode.
C11_OneEpisodePerCall ==
    (TurnReturned /\ memory_enabled /\ turn_start.store_up) =>
        /\ Len(TurnEpisodes) = Len(state.tool_results)
        /\ \A k \in 1..Len(TurnEpisodes) :
             Columns(TurnEpisodes[k]) =
                 EpisodeRow(state.session_id, state.tool_results[k].tool,
                            state.tool_results[k].kind # "error")

\* C12: once update_memory has run, running it again on the same turn state adds
\* no Episode.
C12_UpdateMemoryIdempotent ==
    (pc = "END" /\ memory_enabled /\ turn_start.store_up) =>
        record_results(episodes, seqs.tool_executions, state.session_id,
                       state.tool_results).rows = episodes

\* the results of the calls whose tool body ran and whose tool is a file tool
ExecutedFileCalls(tool_results) ==
    SelectSeq(tool_results,
              LAMBDA r : /\ "file" \in NameWords(r.tool)
                         /\ (r.kind = "result" \/ r.error = "tool_raised"))

\* C13: with memory enabled, every file-type tool call executed in the turn is
\* recorded as exactly one FileInteraction for its path, with the operation derived
\* from the tool name and the call's success flag.
C13_FileInteractionPerFileCall ==
    (TurnReturned /\ memory_enabled /\ turn_start.store_up) =>
        LET calls == ExecutedFileCalls(state.tool_results)
        IN  /\ Len(TurnFileInteractions) = Len(calls)
            /\ \A k \in 1..Len(calls) :
                 /\ TurnFileInteractions[k].file_path = calls[k].path
                 /\ TurnFileInteractions[k].operation = file_operation(calls[k].tool)
                 /\ TurnFileInteractions[k].success = (calls[k].kind # "error")

SelectedTools == Ran("select_tools") /\ pc # "select_tools"

\* C14: when the LLM is absent, its planning call fails or its reply cannot be parsed
\* into a plan, the plan is the one of the rule table for the intent, and the turn goes
\* on to execute_task if that plan has calls and to generate_response if it has none.
C14_FallbackPlanOnPlanningFailure ==
    (SelectedTools /\ state.tool_plan_source \in {"fallback_no_llm", "fallback_error",
                                                 "no_array"}) =>
        /\ \E first_path \in FirstPaths(extract_file_paths(state.user_request)) :
             state.tool_calls =
                 generate_tool_plan_fallback(state.intent,
                     extract_file_paths(state.user_request), first_path,
                     get_mode_capabilities(state.current_mode))
        /\ StageAfter("select_tools") =
             (IF state.tool_calls = <<>> THEN "generate_response" ELSE "execute_task")

\* C15: with an LLM client that always fails, intent read, a request mentioning
\* src/main.py and read capability, the plan is exactly one call: read_file on
\* src/main.py, on every run.
C15_FallbackReadPlan ==
    (SelectedTools /\ state.tool_plan_source = "fallback_error"
       /\ state.intent = "read" /\ state.user_request.file = "src/main.py"
       /\ get_mode_capabilities(state.current_mode).can_read_files) =>
        state.tool_calls = <<PlannedCall("read_file", "src/main.py")>>

\* the order the claim gives for the keyword sets
IntentOrder == <<"read", "write", "search", "delete", "execute">>
FirstMatch(kw) ==
    IF \E k \in 1..Len(IntentOrder) : IntentOrder[k] \in kw
    THEN IntentOrder[CHOOSE k \in 1..Len(IntentOrder) :
                        /\ IntentOrder[k] \in kw
                        /\ \A j \in 1..(k - 1) : IntentOrder[j] \notin kw]
    ELSE "general"

\* C16: the intent classify_intent assigns is a function of the request text alone,
\* whatever the store holds, whether the statistics lookup answers or raises and
\* whether memory is enabled: it is the first of read, write, search, delete,
\* execute whose keywords occur in the request, and general if none does.
C16_IntentDependsOnRequestOnly ==
    /\ (Ran("classify_intent") /\ pc # "classify_intent")
          => state.intent = FirstMatch(state.user_request.kw)
    /\ \A kw \in SUBSET IntentKeywords :
          classify_intent_simple([kw |-> kw, file |-> None, len |-> 0]) = FirstMatch(kw)

C16_Witness ==
    /\ pc = "validate_permissions"
    /\ memory_enabled
    /\ episodes # <<>>
    /\ ~turn_start.store_up
    /\ state.recent_tool_usage = "unset"
    /\ state.user_request.kw = {"read", "write"}
    /\ state.intent = "read"

\* C17: when the store's calls fail during a turn, the turn still runs to END and
\* run() returns a non-empty response.
C17_MemoryFailureDoesNotAbort ==
    (TurnOver /\ memory_enabled /\ ~turn_start.store_up) =>
        /\ ret.kind = "returned"
        /\ ret.response # ""
        /\ Ran("update_memory")

----------------------------------------------------------------------------
(* Properties of find_co_edit_patterns *)

PairOf(row) == {row.file1, row.file2}

\* C18: find_co_edit_patterns returns no two rows for the same unordered pair of
\* files and no row pairing a file with itself: file1 < file2 in every row.
C18_NoDuplicatePairs ==
    patterns.asked =>
        /\ \A i \in 1..Len(patterns.rows) :
             PathLess(patterns.rows[i].file1, patterns.rows[i].file2)
        /\ \A i, j \in 1..Len(patterns.rows) :
             i # j => PairOf(patterns.rows[i]) # PairOf(patterns.rows[j])

C18_Witness ==
    /\ patterns.asked
    /\ Len(patterns.rows) >= 2
    /\ \E i, j \in 1..Len(file_interactions) :
         /\ i < j
         /\ file_interactions[i].file_path = "b.py"
         /\ file_interactions[j].file_path = "a.py"
         /\ file_interactions[i].session_id = file_interactions[j].session_id
         /\ file_interactions[i].operation = "edit"
         /\ file_interactions[j].operation = "edit"

Abs(x) == IF x < 0 THEN 0 - x ELSE x

FilesOf(rows) == {rows[i].file_path : i \in 1..Len(rows)}

\* the pairs of edit/write interactions on file1 and file2 in one session whose
\* timestamps are within within_seconds of each other, in either order
PairsWithinWindow(rows, within_seconds, file1, file2) ==
    {ij \in (1..Len(rows)) \X (1..Len(rows)) :
        /\ rows[ij[1]].file_path = file1
        /\ rows[ij[2]].file_path = file2
        /\ rows[ij[1]].session_id = rows[ij[2]].session_id
        /\ rows[ij[1]].operation \in {"edit", "write"}
        /\ rows[ij[2]].operation \in {"edit", "write"}
        /\ Abs(rows[ij[1]].timestamp - rows[ij[2]].timestamp) <= within_seconds}

\* C19: the count of a pair of files is the number of pairs of edit/write
\* interactions on them, in the same session, within within_seconds of each other,
\* whichever file was touched first; every pair with enough of them is returned.
C19_CountsEitherOrder ==
    patterns.asked =>
        /\ \A i \in 1..Len(patterns.rows) :
             patterns.rows[i].count =
                 Cardinality(PairsWithinWindow(file_interactions, patterns.within_seconds,
                                               patterns.rows[i].file1, patterns.rows[i].file2))
        /\ \A f1, f2 \in FilesOf(file_interactions) :
             (/\ PathLess(f1, f2)
              /\ Cardinality(PairsWithinWindow(file_interactions, patterns.within_seconds,
                                               f1, f2)) >= patterns.min_count)
                => \E i \in 1..Len(patterns.rows) :
                      patterns.rows[i].file1 = f1 /\ patterns.rows[i].file2 = f2

\* the edit/write interactions of session s on a.py and b.py
EditsOfAB(rows, s) ==
    {i \in 1..Len(rows) : /\ rows[i].session_id = s
                          /\ rows[i].file_path \in {"a.py", "b.py"}
                          /\ rows[i].operation \in {"edit", "write"}}

\* session s edited a.py and then b.py, once each, within the window
EditedAThenB(rows, within_seconds, s) ==
    \E i, j \in 1..Len(rows) :
        /\ i < j
        /\ EditsOfAB(rows, s) = {i, j}
        /\ rows[i].file_path = "a.py"
        /\ rows[j].file_path = "b.py"
        /\ rows[j].timestamp - rows[i].timestamp <= within_seconds

SessionsABOnce(rows, within_seconds) ==
    {s \in StoreSessions : EditedAThenB(rows, within_seconds, s)}

RowsOfAB == {i \in 1..Len(patterns.rows) :
                patterns.rows[i].file1 = "a.py" /\ patterns.rows[i].file2 = "b.py"}

\* C20: when each of n sessions edited a.py and then b.py once within the window
\* (and no session touched the two otherwise), the rows hold (a.py, b.py, n) exactly
\* once if n >= min_count and no row for the pair if n < min_count; every row
\* returned has count >= min_count and the rows are in descending order of count.
C20_MinCountAndOrder ==
    patterns.asked =>
        /\ \A i \in 1..Len(patterns.rows) : patterns.rows[i].count >= patterns.min_count
        /\ \A i, j \in 1..Len(patterns.rows) :
             i < j => patterns.rows[i].count >= patterns.rows[j].count
        /\ LET n == Cardinality(SessionsABOnce(file_interactions, patterns.within_seconds))
           IN  (/\ n >= 1
                /\ \A s \in StoreSessions :
                     \/ EditsOfAB(file_interactions, s) = {}
                     \/ EditedAThenB(file_interactions, patterns.within_seconds, s))
                 => IF n >= patterns.min_count
                    THEN /\ Cardinality(RowsOfAB) = 1
                         /\ \A i \in RowsOfAB : patterns.rows[i].count = n
                    ELSE RowsOfAB = {}

C20_Witness ==
    /\ patterns.asked
    /\ patterns.min_count = 1
    /\ SessionsABOnce(file_interactions, patterns.within_seconds) = StoreSessions
    /\ Len(patterns.rows) >= 2
    /\ patterns.rows[1] = [file1 |-> "a.py", file2 |-> "b.py", count |-> 2]
    /\ patterns.rows[2].count = 1

----------------------------------------------------------------------------
(* Properties of the store's tables *)

\* the rows of the task table for task_id
TaskRowsOf(rows, task_id) == SelectSeq(rows, LAMBDA r : r.task_id = task_id)

Completed(rows, task_id) ==
    \E i \in 1..Len(rows) : rows[i].task_id = task_id /\ rows[i].status = "completed"

\* C21: complete_task on a task that an earlier complete_task already completed
\* returns the not-found / no-op indicator and leaves the task's record as that
\* earlier call wrote it.
C21_SecondCompleteIsNoOp ==
    (store_call.op = "complete_task"
       /\ Completed(store_call.pre.task_history, store_call.task_id)) =>
        /\ ~store_call.found
        /\ task_history = store_call.pre.task_history

\* C22: complete_task on a task id that was never created returns the failure
\* indicator, does not raise, and leaves the task table as it was.
C22_CompleteUnknownTask ==
    (store_call.op = "complete_task"
       /\ ~TaskExists(store_call.pre.task_history, store_call.task_id)) =>
        /\ ~store_call.raised
        /\ ~store_call.found
        /\ task_history = store_call.pre.task_history

C22_Witness ==
    /\ store_call.op = "complete_task"
    /\ store_call.task_id = "t2"
    /\ ~TaskExists(store_call.pre.task_history, "t2")
    /\ TaskExists(task_history, "t1")
    /\ ~store_call.found

\* C23: create_task with a task id that already exists does not raise and leaves
\* exactly one record for that id, with the status it had.
C23_CreateTaskIdempotent ==
    (store_call.op = "create_task"
       /\ TaskExists(store_call.pre.task_history, store_call.task_id)) =>
        /\ ~store_call.raised
        /\ Len(TaskRowsOf(task_history, store_call.task_id)) = 1
        /\ TaskRowsOf(task_history, store_call.task_id)[1].status =
               TaskRowsOf(store_call.pre.task_history, store_call.task_id)[1].status

IdsIncrease(rows) == \A i, j \in 1..Len(rows) : i < j => rows[i].id < rows[j].id

----------------------------------------------------------------------------
(* Properties of concurrent callers of the store *)

\* the rows of a table a caller's session owns
RowsFrom(rows, c) == RowsOfSession(rows, SessionOf(c))
TableOf(c) == IF callers[c].op = "record_tool_execution" THEN episodes ELSE file_interactions

\* C25: when record calls of two sessions interleave on the shared store, no
\* row is lost (every call's row is in its table, under its own session) and
\* every call returns the id of the row that it inserted itself.
C25_InterleavedRecordsKeepTheirIds ==
    /\ \A c \in Callers :
         /\ Len(RowsFrom(episodes, c)) + Len(RowsFrom(file_interactions, c))
              = callers[c].calls
         /\ (callers[c].pc = "ready" /\ callers[c].op # None) =>
              /\ callers[c].id = callers[c].inserted
              /\ \E k \in 1..Len(TableOf(c)) :
                   /\ TableOf(c)[k].id = callers[c].id
                   /\ TableOf(c)[k].session_id = SessionOf(c)
    /\ IdsIncrease(episodes)
    /\ IdsIncrease(file_interactions)

\* a call of s2 lies between two calls of s1 on the same table, all returned
C25_Witness ==
    /\ \A c \in Callers : callers[c].pc = "ready"
    /\ Len(episodes) = 3
    /\ episodes[1].session_id = "s1"
    /\ episodes[2].session_id = "s2"
    /\ episodes[3].session_id = "s1"
    /\ callers["c1"].id = 3
    /\ callers["c2"].id = 2

----------------------------------------------------------------------------
(* Properties of concurrent and successive run() calls *)

\* the position in the log of a step of a call (0: not taken)
StepAt(r, stage) ==
    IF \E k \in 1..Len(log) : log[k].run = r /\ log[k].stage = stage
    THEN CHOOSE k \in 1..Len(log) : log[k].run = r /\ log[k].stage = stage
    ELSE 0
\* r2 is a call for the session of r1 made after r1 was made
CalledAgain(r1, r2) ==
    /\ r1 # r2
    /\ StepAt(r1, "run") > 0
    /\ StepAt(r2, "run") > StepAt(r1, "run")
    /\ coroutines[r1].session_id = coroutines[r2].session_id

\* C26: turns of one session never interleave: when run() is called again for
\* a session whose previous turn is in progress, no stage of the second turn
\* runs before the previous turn has finished update_memory.
C26_TurnsOfASessionDoNotInterleave ==
    \A r1 \in Runs, r2 \in Runs :
        CalledAgain(r1, r2) =>
            \A k \in 1..Len(log) :
                (log[k].run = r2 /\ log[k].stage # "run") =>
                    /\ StepAt(r1, "update_memory") > 0
                    /\ StepAt(r1, "update_memory") < k

\* C27: when turns of two sessions run concurrently, each uses its own context
\* window and cost ledger: whatever the interleaving, a step of one session's
\* turn never adds to the window, or reads the ledger, of the other session.
C27_SessionsUseTheirOwnWindow ==
    \A k \in 1..Len(log) :
        log[k].used \in {None, coroutines[log[k].run].session_id}

\* C28: a context window is created only for a session that has none: on a
\* later turn of a session, the items added in its earlier turns are still in
\* the session's window unless a prune removed them.
C28_WindowKeptAcrossTurns ==
    \A r1 \in Runs, r2 \in Runs :
        ( /\ CalledAgain(r1, r2)
          /\ StepAt(r1, "return") > 0
          /\ StepAt(r1, "return") < StepAt(r2, "run")
          /\ context_window.session_id = coroutines[r2].session_id
          /\ context_window.pruning_count = 0 )
        => coroutines[r1].added \subseteq ItemIds(context_window)

----------------------------------------------------------------------------
(* Properties of add_item's pruning and of system prompts *)

\* the ids a prune (or an add that pruned) took out of the window
RemovedIds == ItemIds(PrunedFrom) \ ItemIds(window)
AtThreshold(w) == w.token_count * PruneThresholdDen >= w.token_limit * PruneThresholdNum

\* C29: add_item prunes exactly when, after appending, token_count >=
\* token_limit * pruning_threshold, and then runs prune_context once; an add
\* that stays below the threshold removes nothing and leaves pruning_count as
\* it was; each prune that removes items increases pruning_count by exactly 1.
C29_AddPrunesAtThreshold ==
    /\ last_op.op = "add" =>
         IF AtThreshold(PrunedFrom)
         THEN /\ window = prune_context(PrunedFrom, last_op.item.timestamp).w
              /\ window.pruning_count =
                     last_op.pre.pruning_count + (IF NonStickyIdx(PrunedFrom) = {} THEN 0 ELSE 1)
         ELSE /\ window = PrunedFrom
              /\ RemovedIds = {}
              /\ window.pruning_count = last_op.pre.pruning_count
    /\ (last_op.op \in {"add", "prune"} /\ RemovedIds # {}) =>
         window.pruning_count = last_op.pre.pruning_count + 1

\* an add that brought the total to the threshold or over it, and pruned items away
C29_Witness ==
    /\ last_op.op = "add"
    /\ last_op.pre.token_count * PruneThresholdDen
         < last_op.pre.token_limit * PruneThresholdNum
    /\ AtThreshold(PrunedFrom)
    /\ RemovedIds # {}
    /\ window.pruning_count = last_op.pre.pruning_count + 1

\* C30: a system-prompt item is never removed by prune_context, even when it is
\* not sticky, whatever the other items of the window are.
C30_SystemPromptNeverPruned ==
    last_op.op \in {"add", "prune"} =>
        \A i \in 1..Len(PrunedFrom.items) :
            PrunedFrom.items[i].item_type = "system_prompt" =>
                PrunedFrom.items[i].id \in ItemIds(window)

----------------------------------------------------------------------------
(* Properties of the ModelRouter *)

TierRank(tier) ==
    CASE tier = "large" -> 1 [] tier = "medium" -> 2 [] tier = "small" -> 3 [] OTHER -> 4
\* the position of a model in the catalog ordered large, medium, small, local
\* (entries of one tier in catalog order)
CatalogIdx(model_name) ==
    CHOOSE i \in 1..Len(SUPPORTED_MODELS) : SUPPORTED_MODELS[i].name = model_name
ChainBefore(m, n) ==
    \/ TierRank(ConfigOf(m).tier) < TierRank(ConfigOf(n).tier)
    \/ /\ ConfigOf(m).tier = ConfigOf(n).tier
       /\ CatalogIdx(m) < CatalogIdx(n)
\* a get_model call whose requested model did not construct, with fallback enabled
FellBack ==
    /\ router_call.op = "get_model"
    /\ router_call.enable_fallback
    /\ router_call.tried[1] \notin router_call.up

\* C31: when constructing the requested model fails and fallback is enabled,
\* get_model tries the entries of the chain (large, medium, small, local) that
\* come after the failed entry, in order, each at most once and never the
\* failed one or one before it; it returns the first that constructs and
\* raises when none of them does.
C31_FallbackWalk ==
    FellBack =>
        LET tried == router_call.tried
            failed == tried[1]
            after == {n \in ModelNames : ChainBefore(failed, n)}
        IN  /\ \A k \in 2..Len(tried) : tried[k] \in after
            /\ \A j \in 2..Len(tried), k \in 2..Len(tried) :
                   j < k => ChainBefore(tried[j], tried[k])
            /\ IF after \cap router_call.up = {}
               THEN /\ router_call.raised
                    /\ router_call.ret = None
                    /\ {tried[k] : k \in 2..Len(tried)} = after
               ELSE /\ ~router_call.raised
                    /\ router_call.ret \in after \cap router_call.up
                    /\ router_call.ret = tried[Len(tried)]
                    /\ \A n \in after \cap router_call.up :
                           n = router_call.ret \/ ChainBefore(router_call.ret, n)
                    /\ {tried[k] : k \in 2..Len(tried)}
                         = {n \in after : n = router_call.ret
                                          \/ ChainBefore(n, router_call.ret)}

\* a medium model failed, a model before it in the chain would construct, and the
\* walk went past two failing entries to a small model
C31_Witness ==
    /\ FellBack
    /\ ConfigOf(router_call.tried[1]).tier = "medium"
    /\ \E n \in router_call.up : ChainBefore(n, router_call.tried[1])
    /\ Len(router_call.tried) > 3
    /\ ~router_call.raised
    /\ ConfigOf(router_call.ret).tier = "small"

\* every entry after the failed one fails too
C31_WitnessAllFail ==
    /\ FellBack
    /\ router_call.raised
    /\ Len(router_call.tried) > 3
    /\ router_call.up # {}

\* C32: select_model_for_task returns the first catalog entry of the tier fixed
\* for the task class, whatever was called or tracked before.
C32_TaskRouting ==
    router_call.op = "select_model_for_task" /\ router_call.arg \in TaskTypes =>
        LET tier == CASE router_call.arg \in {"main_agent", "code_generation"} -> "medium"
                      [] router_call.arg \in {"sub_agent", "simple_query", "code_review"}
                           -> "small"
                      [] OTHER -> "large"
        IN  /\ ConfigOf(router_call.ret).tier = tier
            /\ \A i \in 1..Len(SUPPORTED_MODELS) :
                   SUPPORTED_MODELS[i].tier = tier =>
                       CatalogIdx(router_call.ret) <= i

\* a selection made after usage was tracked
C32_Witness ==
    /\ router_call.op = "select_model_for_task"
    /\ router_call.arg = "complex_reasoning"
    /\ router_call.ret = "gpt-4"
    /\ Len(router_call.tracked) = MaxUsage
    /\ model_router.total_cost > 0

\* C33: every track_usage call, for a known or an unknown model, returns a
\* usage record and appends it to the ledger: the summary's call count is the
\* number of track_usage calls and its token totals include every call; an
\* unknown model does not raise and adds zero cost.
C33_EveryUsageInLedger ==
    LET summary == get_summary(model_router)
    IN  /\ summary.call_count = Len(router_call.tracked)
        /\ summary.total_tokens = SumField(router_call.tracked, "total_tokens")
        /\ \A k \in 1..Len(router_call.tracked) :
               router_call.tracked[k].model_name \notin ModelNames =>
                   router_call.tracked[k].estimated_cost = 0

----------------------------------------------------------------------------
(* Properties of the tool-tracking wrapper *)

\* C34: a wrapped tool records nothing while no session context is set; once
\* one is set it records exactly one Episode per invocation, with success true
\* when the tool returns and false when it raises; in both cases the tool's
\* return value or exception reaches the caller unchanged.
C34_WrapperRecordsAndPassesThrough ==
    store_call.op = "tracked_call" =>
        /\ store_call.args.reached = store_call.args.outcome
        /\ IF mem_session = None
           THEN /\ episodes = store_call.pre.tool_executions
                /\ file_interactions = store_call.pre.file_interactions
           ELSE /\ Len(episodes) = Len(store_call.pre.tool_executions) + 1
                /\ IsPrefix(store_call.pre.tool_executions, episodes)
                /\ Columns(episodes[Len(episodes)])
                     = EpisodeRow(mem_session, store_call.args.tool_name,
                                  store_call.args.outcome # "raises")

----------------------------------------------------------------------------
(* Properties of the order of removal *)

ScoreOf(w, clock, i) == calculate_relevance(w, w.items[i], clock)
\* i is taken before j by a prune at clock: lower score, or equal score and added earlier
TakenBefore(w, clock, i, j) ==
    \/ ScoreOf(w, clock, i) < ScoreOf(w, clock, j)
    \/ ScoreOf(w, clock, i) = ScoreOf(w, clock, j) /\ i < j
PositionOf(w, id) == CHOOSE i \in 1..Len(w.items) : w.items[i].id = id

\* a prune of w at clock removes the lowest scores, stops at the target and
\* keeps the order of the rest
LowestFirst(w, clock) ==
    LET removed == RemovedIdx(w, clock)
        left == prune_context(w, clock).w.items
    IN  /\ \A i \in removed, j \in NonStickyIdx(w) \ removed :
               ScoreOf(w, clock, i) <= ScoreOf(w, clock, j)
        /\ \A i \in removed :
               CostOfIdx(w.items, {j \in removed : TakenBefore(w, clock, j, i)})
                 < TargetRemoval(w)
        /\ {left[k].id : k \in 1..Len(left)}
             = ItemIds(w) \ {w.items[i].id : i \in removed}
        /\ \A a \in 1..Len(left), b \in 1..Len(left) :
               a < b => PositionOf(w, left[a].id) < PositionOf(w, left[b].id)

C39_WithinBudgetAfterAdd ==
    last_op.op = "add" => window.token_count <= window.token_limit

----------------------------------------------------------------------------
(* Properties of a turn's cost ledger and tool calls *)

\* the stages of the turn so far that invoked self.llm
LLMStages == {"select_tools", "generate_response"}
LLMCalls ==
    IF llm = "none" THEN 0
    ELSE Cardinality({i \in 1..Len(trace) : trace[i] \in LLMStages /\ (i < Len(trace) \/ pc = "idle")})

\* C36: every LLM call made during a turn (tool planning, response
\* generation) is recorded in the session's cost ledger: the cost_summary
\* run() returns has a call count equal to the number of LLM calls made.
C36_LLMCallsInCostLedger ==
    ret.kind = "returned" => get_summary(model_router).call_count = LLMCalls

\* C37: no tool is executed in a turn unless the declared mode grants the
\* capability that tool needs (read_file, list_directory and search_files
\* need read, write_file needs write, bash needs execute), whatever plan the
\* LLM returned in select_tools.
C37_ExecutedToolsAreGranted ==
    \A i \in 1..Len(executed) :
        executed[i] \in get_available_tools_for_capabilities(
                            get_mode_capabilities(state.current_mode))

\* the results of calls that failed: the call raised, or its tool reported
\* success=False
FailedResults(tool_results) ==
    {k \in 1..Len(tool_results) :
        tool_results[k].kind = "error" \/ ~tool_results[k].output_success}

\* C38: a tool call counts as failed whenever the tool reports failure: a call
\* whose tool returns an outcome with success=false is treated as an error by
\* the routing after execute_task, and is recorded as an Episode with
\* success=false, the same as a call that raises.
C38_ReportedFailureCountsAsFailed ==
    LET n == Len(state.tool_results)
        failed == FailedResults(state.tool_results)
    IN  /\ state.execution_complete =>
              /\ failed = {} => route = "success"
              /\ (failed = 1..n /\ n > 0) => route = "error"
              /\ (failed # {} /\ failed # 1..n) => route = "partial"
        /\ (state.memory_updated # "unset" /\ memory_enabled /\ turn_start.store_up) =>
              \A k \in failed :
                  /\ turn_start.episodes + k <= Len(episodes)
                  /\ ~episodes[turn_start.episodes + k].success

\* the context snapshots written since the turn began
TurnSnapshots == SubSeq(snapshots, turn_start.snapshots + 1, Len(snapshots))

====
